---- MODULE Spec2Model ----
(***************************************************************************)
(* nccheck, the normalization-confluence verifier: registry loading,       *)
(* expression lexer / Pratt parser / evaluator, mixed-radix state codec,   *)
(* Compile, BuildTables (Valid, NF, Step), CheckWFC, CheckCC and main.     *)
(*                                                                         *)
(* A Go string is modelled as a sequence of one-character strings, so that *)
(* the lexer and containsIdent scan it byte by byte as the code does.      *)
(***************************************************************************)
EXTENDS Integers, Sequences, FiniteSets, TLC

(* ------------------------------------------------------------------ *)
(* Text helpers                                                        *)
(* ------------------------------------------------------------------ *)

LowerChars == {"a","b","c","d","e","f","g","h","i","j","k","l","m",
               "n","o","p","q","r","s","t","u","v","w","x","y","z"}

UpperChars == {"A","B","C","D","E","F","G","H","I","J","K","L","M",
               "N","O","P","Q","R","S","T","U","V","W","X","Y","Z"}

DigitChars == {"0","1","2","3","4","5","6","7","8","9"}

SpaceChars == {" ", "\t", "\n", "\r"}

\* unicode.IsLetter / unicode.IsDigit / unicode.IsSpace on the ASCII bytes
IsLetter(ch) == ch \in LowerChars \cup UpperChars

IsDigit(ch) == ch \in DigitChars

IsSpace(ch) == ch \in SpaceChars

DigitVal(ch) ==
    CASE ch = "0" -> 0 [] ch = "1" -> 1 [] ch = "2" -> 2 [] ch = "3" -> 3
      [] ch = "4" -> 4 [] ch = "5" -> 5 [] ch = "6" -> 6 [] ch = "7" -> 7
      [] ch = "8" -> 8 [] ch = "9" -> 9

DigitChar(d) ==
    CASE d = 0 -> "0" [] d = 1 -> "1" [] d = 2 -> "2" [] d = 3 -> "3"
      [] d = 4 -> "4" [] d = 5 -> "5" [] d = 6 -> "6" [] d = 7 -> "7"
      [] d = 8 -> "8" [] d = 9 -> "9"

RECURSIVE Atoi(_)
\* strconv.Atoi on a token made of digits only (the lexer yields no other)
Atoi(txt) ==
    IF txt = <<>> THEN 0
    ELSE 10 * Atoi(SubSeq(txt, 1, Len(txt) - 1)) + DigitVal(txt[Len(txt)])

RECURSIVE Itoa(_)
\* decimal rendering of an int, as fmt's %d / %v
Itoa(i) ==
    IF i < 0 THEN <<"-">> \o Itoa(0 - i)
    ELSE IF i < 10 THEN <<DigitChar(i)>>
    ELSE Itoa(i \div 10) \o <<DigitChar(i % 10)>>

\* strings.Index(s[idx:], ident) != -1 at an absolute position
MatchAt(s, ident, p) ==
    /\ p + Len(ident) - 1 <= Len(s)
    /\ \A k \in 1..Len(ident) : s[p + k - 1] = ident[k]

Range(f) == {f[x] : x \in DOMAIN f}

(* ------------------------------------------------------------------ *)
(* registry: types, schema, state codec                                *)
(* ------------------------------------------------------------------ *)

TypeBool == "TypeBool"

TypeEnum == "TypeEnum"

TypeInt == "TypeInt"

VarDef(name, type, values, min, max, size) ==
    [Name |-> name, Type |-> type, Values |-> values,
     Min |-> min, Max |-> max, Size |-> size]

\* parseVarDef: [ok, vd]. rv = [Type, Values, Range] with Type a text.
parseVarDef(name, rv) ==
    CASE rv.Type = <<"b","o","o","l">> ->
            [ok |-> TRUE, vd |-> VarDef(name, TypeBool, <<>>, 0, 0, 2)]
      [] rv.Type = <<"e","n","u","m">> ->
            [ok |-> Len(rv.Values) # 0,
             vd |-> VarDef(name, TypeEnum, rv.Values, 0, 0, Len(rv.Values))]
      [] rv.Type = <<"i","n","t">> ->
            IF Len(rv.Range) # 2
            THEN [ok |-> FALSE, vd |-> VarDef(name, TypeInt, <<>>, 0, 0, 0)]
            ELSE [ok |-> rv.Range[2] - rv.Range[1] + 1 > 0,
                  vd |-> VarDef(name, TypeInt, <<>>, rv.Range[1], rv.Range[2],
                                rv.Range[2] - rv.Range[1] + 1)]
      [] OTHER -> [ok |-> FALSE, vd |-> VarDef(name, TypeBool, <<>>, 0, 0, 0)]

\* Go's int is 64 bits wide and its product wraps. A 64-bit word is kept as
\* five limbs, lowest first: four of 15 bits and a top one of 4 bits.
Limb == 32768

TopLimb == 16

\* the word of an integer 0 <= n < 2^31
W64(n) == <<n % Limb, (n \div Limb) % Limb, n \div (Limb * Limb), 0, 0>>

RECURSIVE W64Carry(_, _, _)
\* the limbs from position i on of the limb sums t, with the carries passed
\* upward and the carry out of the top limb dropped
W64Carry(t, i, carry) ==
    IF i > 5 THEN <<>>
    ELSE <<(t[i] + carry) % (IF i = 5 THEN TopLimb ELSE Limb)>>
            \o W64Carry(t, i + 1, (t[i] + carry) \div Limb)

W64Add(a, b) == W64Carry([i \in 1..5 |-> a[i] + b[i]], 1, 0)

\* the word p times d, 0 <= d < Limb
W64MulLimb(p, d) == W64Carry([i \in 1..5 |-> p[i] * d], 1, 0)

\* the word p times Limb^k
W64Shl(p, k) ==
    [i \in 1..5 |-> IF i <= k THEN 0
                    ELSE IF i = 5 THEN p[i - k] % TopLimb ELSE p[i - k]]

\* the wrapping product of the word p and an integer 0 <= n < 2^31
W64Mul(p, n) ==
    W64Add(W64Add(W64MulLimb(p, n % Limb),
                  W64Shl(W64MulLimb(p, (n \div Limb) % Limb), 1)),
           W64Shl(W64MulLimb(p, n \div (Limb * Limb)), 2))

\* the signed value of a word; a value of 2^31 or more is given as 2^31 - 1
\* and a negative one as -(2^31 - 1), which keeps its sign and its order
\* against every number below 2^31
W64Int(p) ==
    IF p[5] >= TopLimb \div 2 THEN 0 - 2147483647
    ELSE IF p[5] = 0 /\ p[4] = 0 /\ p[3] < 2
    THEN p[1] + Limb * p[2] + Limb * Limb * p[3]
    ELSE 2147483647

RECURSIVE TotalFrom64(_, _)
\* the word s.TotalLen holds when NewSchema's loop has visited vars[i..]
TotalFrom64(vars, i) ==
    IF i > Len(vars) THEN W64(1)
    ELSE W64Mul(TotalFrom64(vars, i + 1), vars[i].Size)

\* product of the sizes of vars[i..], the running TotalLen of NewSchema
TotalFrom(vars, i) == W64Int(TotalFrom64(vars, i))

\* NewSchema: Strides[i] = product of the sizes of all later variables
NewSchema(vars) ==
    [Vars |-> vars,
     Strides |-> [i \in 1..Len(vars) |-> TotalFrom(vars, i + 1)],
     TotalLen |-> TotalFrom(vars, 1)]

RECURSIVE EncodeFrom(_, _, _)
EncodeFrom(s, st, i) ==
    IF i > Len(st) THEN 0
    ELSE (IF s.Vars[i].Type = TypeInt THEN st[i] - s.Vars[i].Min ELSE st[i])
            * s.Strides[i]
         + EncodeFrom(s, st, i + 1)

\* Schema.Encode: pack a state vector into a state ID
Encode(s, st) == EncodeFrom(s, st, 1)

\* Go's truncated integer division and remainder
GoDiv(a, b) ==
    IF (a >= 0) = (b > 0)
    THEN (IF a >= 0 THEN a ELSE 0 - a) \div (IF b > 0 THEN b ELSE 0 - b)
    ELSE 0 - ((IF a >= 0 THEN a ELSE 0 - a) \div (IF b > 0 THEN b ELSE 0 - b))

GoMod(a, b) == a - b * GoDiv(a, b)

RECURSIVE DecodeRem(_, _, _)
\* the value of rem when Decode's loop reaches variable i
DecodeRem(s, id, i) ==
    IF i = 1 THEN id ELSE GoMod(DecodeRem(s, id, i - 1), s.Strides[i - 1])

\* Decode without the denormalisation of int variables
DecodeNoMin(s, id) ==
    [i \in 1..Len(s.Vars) |-> GoDiv(DecodeRem(s, id, i), s.Strides[i])]

\* Schema.Decode: unpack a state ID into a state vector
Decode(s, id) ==
    [i \in 1..Len(s.Vars) |->
        GoDiv(DecodeRem(s, id, i), s.Strides[i])
        + (IF s.Vars[i].Type = TypeInt THEN s.Vars[i].Min ELSE 0)]

\* Schema.VarIndex: index of the first variable with that name, or -1
\* (indices are 1-based here, 0-based in the code)
VarIndex(s, name) ==
    IF \E i \in 1..Len(s.Vars) : s.Vars[i].Name = name
    THEN CHOOSE i \in 1..Len(s.Vars) :
            /\ s.Vars[i].Name = name
            /\ \A j \in 1..(i - 1) : s.Vars[j].Name # name
    ELSE -1

(* ------------------------------------------------------------------ *)
(* expr: lexer                                                         *)
(* ------------------------------------------------------------------ *)

Token(type, val, pos) == [Type |-> type, Val |-> val, Pos |-> pos]

\* the keywords map: the token type of a reserved word, else TokIdent
keywords(word) ==
    CASE word = <<"t","r","u","e">> -> "TokTrue"
      [] word = <<"f","a","l","s","e">> -> "TokFalse"
      [] word = <<"n","o","t">> -> "TokNot"
      [] word = <<"a","n","d">> -> "TokAnd"
      [] word = <<"o","r">> -> "TokOr"
      [] word = <<"i","f">> -> "TokIf"
      [] word = <<"t","h","e","n">> -> "TokThen"
      [] word = <<"e","l","s","e">> -> "TokElse"
      [] OTHER -> "TokIdent"

RECURSIVE DigitsEnd(_, _)
\* first position at or after i that holds no digit
DigitsEnd(input, i) ==
    IF i <= Len(input) /\ IsDigit(input[i]) THEN DigitsEnd(input, i + 1) ELSE i

RECURSIVE IdentEnd(_, _)
\* first position at or after i that holds no letter, digit or underscore
IdentEnd(input, i) ==
    IF i <= Len(input) /\ (IsLetter(input[i]) \/ IsDigit(input[i]) \/ input[i] = "_")
    THEN IdentEnd(input, i + 1) ELSE i

TwoCharOp(two) ==
    CASE two = <<"=","=">> -> "TokEq"
      [] two = <<"!","=">> -> "TokNeq"
      [] two = <<"<","=">> -> "TokLe"
      [] two = <<">","=">> -> "TokGe"
      [] OTHER -> "none"

OneCharOp(ch) ==
    CASE ch = "<" -> "TokLt"
      [] ch = ">" -> "TokGt"
      [] ch = "+" -> "TokPlus"
      [] ch = "-" -> "TokMinus"
      [] ch = "*" -> "TokStar"
      [] ch = "/" -> "TokSlash"
      [] ch = "%" -> "TokPercent"
      [] ch = "(" -> "TokLParen"
      [] ch = ")" -> "TokRParen"
      [] ch = "," -> "TokComma"
      [] OTHER -> "none"

RECURSIVE LexFrom(_, _)
\* the body of Lex's loop from position i (1-based; Token.Pos is 0-based)
LexFrom(input, i) ==
    IF i > Len(input)
    THEN [ok |-> TRUE, toks |-> <<Token("TokEOF", <<>>, Len(input))>>]
    ELSE LET ch == input[i]
             Cons(tok, rest) ==
                IF rest.ok THEN [ok |-> TRUE, toks |-> <<tok>> \o rest.toks]
                ELSE rest
         IN  IF IsSpace(ch) THEN LexFrom(input, i + 1)
             ELSE IF IsDigit(ch) THEN
                LET e == DigitsEnd(input, i)
                IN  Cons(Token("TokInt", SubSeq(input, i, e - 1), i - 1),
                         LexFrom(input, e))
             ELSE IF IsLetter(ch) \/ ch = "_" THEN
                LET e == IdentEnd(input, i)
                    word == SubSeq(input, i, e - 1)
                IN  Cons(Token(keywords(word), word, i - 1), LexFrom(input, e))
             ELSE IF i + 1 <= Len(input) /\ TwoCharOp(SubSeq(input, i, i + 1)) # "none" THEN
                Cons(Token(TwoCharOp(SubSeq(input, i, i + 1)),
                           SubSeq(input, i, i + 1), i - 1),
                     LexFrom(input, i + 2))
             ELSE IF OneCharOp(ch) # "none" THEN
                Cons(Token(OneCharOp(ch), <<ch>>, i - 1), LexFrom(input, i + 1))
             ELSE [ok |-> FALSE, toks |-> <<>>]

\* Lex: [ok, toks]; ok = FALSE is the "unexpected character" error
Lex(input) == LexFrom(input, 1)

(* ------------------------------------------------------------------ *)
(* expr: Pratt parser                                                  *)
(* ------------------------------------------------------------------ *)

\* Node: the AST node struct, unused fields at their zero values
Node(type, intVal, boolVal, name, children) ==
    [Type |-> type, IntVal |-> intVal, BoolVal |-> boolVal,
     Name |-> name, Children |-> children]

NilNode == Node("nil", 0, FALSE, <<>>, <<>>)

precOr == 1

precAnd == 2

precCompare == 3

precAdd == 4

precMul == 5

\* infixInfo: [ok, prec, nt] of a token type
infixInfo(tt) ==
    CASE tt = "TokOr" -> [ok |-> TRUE, prec |-> precOr, nt |-> "NodeOr"]
      [] tt = "TokAnd" -> [ok |-> TRUE, prec |-> precAnd, nt |-> "NodeAnd"]
      [] tt = "TokEq" -> [ok |-> TRUE, prec |-> precCompare, nt |-> "NodeEq"]
      [] tt = "TokNeq" -> [ok |-> TRUE, prec |-> precCompare, nt |-> "NodeNeq"]
      [] tt = "TokLt" -> [ok |-> TRUE, prec |-> precCompare, nt |-> "NodeLt"]
      [] tt = "TokLe" -> [ok |-> TRUE, prec |-> precCompare, nt |-> "NodeLe"]
      [] tt = "TokGt" -> [ok |-> TRUE, prec |-> precCompare, nt |-> "NodeGt"]
      [] tt = "TokGe" -> [ok |-> TRUE, prec |-> precCompare, nt |-> "NodeGe"]
      [] tt = "TokPlus" -> [ok |-> TRUE, prec |-> precAdd, nt |-> "NodeAdd"]
      [] tt = "TokMinus" -> [ok |-> TRUE, prec |-> precAdd, nt |-> "NodeSub"]
      [] tt = "TokStar" -> [ok |-> TRUE, prec |-> precMul, nt |-> "NodeMul"]
      [] tt = "TokSlash" -> [ok |-> TRUE, prec |-> precMul, nt |-> "NodeDiv"]
      [] tt = "TokPercent" -> [ok |-> TRUE, prec |-> precMul, nt |-> "NodeMod"]
      [] OTHER -> [ok |-> FALSE, prec |-> 0, nt |-> "none"]

isBuiltin(name) ==
    \/ name = <<"m","i","n">>
    \/ name = <<"m","a","x">>
    \/ name = <<"c","l","a","m","p">>

\* Parser.peek at a 1-based position
peek(toks, pos) ==
    IF pos > Len(toks) THEN Token("TokEOF", <<>>, 0) ELSE toks[pos]

\* a parse result: the node and the parser position after it, or an error
POk(node, pos) == [ok |-> TRUE, node |-> node, pos |-> pos]

PErr == [ok |-> FALSE, node |-> NilNode, pos |-> 0]

RECURSIVE parseExpr(_, _, _)
RECURSIVE parseInfix(_, _, _, _)
RECURSIVE parseUnary(_, _)
RECURSIVE parseAtom(_, _)
RECURSIVE parseArgs(_, _, _)

\* parseCall after '(' is consumed: the argument loop, ')' and the arity check
parseArgs(toks, pos, args) ==
    LET arg == parseExpr(toks, pos, 0)
    IN  IF ~arg.ok THEN [ok |-> FALSE, args |-> <<>>, pos |-> 0]
        ELSE IF peek(toks, arg.pos).Type = "TokComma"
        THEN parseArgs(toks, arg.pos + 1, Append(args, arg.node))
        ELSE IF peek(toks, arg.pos).Type # "TokRParen"
        THEN [ok |-> FALSE, args |-> <<>>, pos |-> 0]
        ELSE [ok |-> TRUE, args |-> Append(args, arg.node), pos |-> arg.pos + 1]

parseCall(toks, pos, name) ==
    LET r == parseArgs(toks, pos + 1, <<>>)
    IN  IF ~r.ok THEN PErr
        ELSE IF name \in {<<"m","i","n">>, <<"m","a","x">>} /\ Len(r.args) # 2 THEN PErr
        ELSE IF name = <<"c","l","a","m","p">> /\ Len(r.args) # 3 THEN PErr
        ELSE POk(Node("NodeCall", 0, FALSE, name, r.args), r.pos)

parseAtom(toks, pos) ==
    LET tok == peek(toks, pos)
    IN  CASE tok.Type = "TokInt" ->
                POk(Node("NodeLitInt", Atoi(tok.Val), FALSE, <<>>, <<>>), pos + 1)
          [] tok.Type = "TokTrue" ->
                POk(Node("NodeLitBool", 0, TRUE, <<>>, <<>>), pos + 1)
          [] tok.Type = "TokFalse" ->
                POk(Node("NodeLitBool", 0, FALSE, <<>>, <<>>), pos + 1)
          [] tok.Type = "TokIdent" ->
                IF peek(toks, pos + 1).Type = "TokLParen" /\ isBuiltin(tok.Val)
                THEN parseCall(toks, pos + 1, tok.Val)
                ELSE POk(Node("NodeVar", 0, FALSE, tok.Val, <<>>), pos + 1)
          [] tok.Type = "TokLParen" ->
                LET e == parseExpr(toks, pos + 1, 0)
                IN  IF ~e.ok THEN PErr
                    ELSE IF peek(toks, e.pos).Type # "TokRParen" THEN PErr
                    ELSE POk(e.node, e.pos + 1)
          [] OTHER -> PErr

parseUnary(toks, pos) ==
    LET tok == peek(toks, pos)
    IN  CASE tok.Type = "TokNot" ->
                LET operand == parseUnary(toks, pos + 1)
                IN  IF ~operand.ok THEN PErr
                    ELSE POk(Node("NodeNot", 0, FALSE, <<>>, <<operand.node>>),
                             operand.pos)
          [] tok.Type = "TokIf" ->
                LET cond == parseExpr(toks, pos + 1, 0)
                IN  IF ~cond.ok \/ peek(toks, cond.pos).Type # "TokThen" THEN PErr
                    ELSE LET then == parseExpr(toks, cond.pos + 1, 0)
                         IN  IF ~then.ok \/ peek(toks, then.pos).Type # "TokElse"
                             THEN PErr
                             ELSE LET els == parseExpr(toks, then.pos + 1, 0)
                                  IN  IF ~els.ok THEN PErr
                                      ELSE POk(Node("NodeIf", 0, FALSE, <<>>,
                                                 <<cond.node, then.node, els.node>>),
                                               els.pos)
          [] tok.Type = "TokMinus" ->
                LET operand == parseUnary(toks, pos + 1)
                IN  IF ~operand.ok THEN PErr
                    ELSE POk(Node("NodeSub", 0, FALSE, <<>>,
                               <<Node("NodeLitInt", 0, FALSE, <<>>, <<>>),
                                 operand.node>>),
                             operand.pos)
          [] OTHER -> parseAtom(toks, pos)

\* the infix loop of parseExpr, left operand already parsed
parseInfix(toks, pos, minPrec, left) ==
    LET info == infixInfo(peek(toks, pos).Type)
    IN  IF ~info.ok \/ info.prec < minPrec THEN POk(left, pos)
        ELSE LET right == parseExpr(toks, pos + 1, info.prec + 1)
             IN  IF ~right.ok THEN PErr
                 ELSE parseInfix(toks, right.pos, minPrec,
                                 Node(info.nt, 0, FALSE, <<>>, <<left, right.node>>))

parseExpr(toks, pos, minPrec) ==
    LET Infix(left) ==
            IF ~left.ok THEN PErr ELSE parseInfix(toks, left.pos, minPrec, left.node)
    IN  Infix(parseUnary(toks, pos))

\* expr.Parse: [ok, node]
Parse(input) ==
    LET Finish(toks, r) ==
            IF ~r.ok THEN [ok |-> FALSE, node |-> NilNode]
            ELSE IF peek(toks, r.pos).Type # "TokEOF"
            THEN [ok |-> FALSE, node |-> NilNode]
            ELSE [ok |-> TRUE, node |-> r.node]
        Tokens(lx) ==
            IF ~lx.ok THEN [ok |-> FALSE, node |-> NilNode]
            ELSE Finish(lx.toks, parseExpr(lx.toks, 1, 0))
    IN  Tokens(Lex(input))

(* ------------------------------------------------------------------ *)
(* expr: evaluator                                                     *)
(* ------------------------------------------------------------------ *)

\* Value, with the error of the (Value, error) pair folded in: err = <<>>
\* means no error
VInt(i) == [err |-> <<>>, IsInt |-> TRUE, IsBool |-> FALSE, Int |-> i, Bool |-> FALSE]

VBool(b) == [err |-> <<>>, IsInt |-> FALSE, IsBool |-> TRUE, Int |-> 0, Bool |-> b]

VErr(msg) == [err |-> msg, IsInt |-> FALSE, IsBool |-> FALSE, Int |-> 0, Bool |-> FALSE]

NewEnv(schema, state, enumLiterals) ==
    [Schema |-> schema, State |-> state, EnumLiterals |-> enumLiterals]

\* the longest enum value list of the schema
MaxLitIdx(schema) ==
    LET lens == {Len(schema.Vars[i].Values) : i \in 1..Len(schema.Vars)} \cup {0}
    IN  CHOOSE m \in lens : \A l \in lens : l <= m

\* all occurrences of an enum literal, as <<variable index, value index>>
LiteralSites(schema, lit) ==
    {<<i, k>> \in (1..Len(schema.Vars)) \X (0..(MaxLitIdx(schema) - 1)) :
        /\ schema.Vars[i].Type = TypeEnum
        /\ k < Len(schema.Vars[i].Values)
        /\ schema.Vars[i].Values[k + 1] = lit}

\* BuildEnumLiterals without the test against the variable names
BuildEnumLiteralsAmongEnums(schema) ==
    LET lits == UNION {Range(schema.Vars[i].Values) :
                          i \in {j \in 1..Len(schema.Vars) :
                                    schema.Vars[j].Type = TypeEnum}}
    IN  IF \E l \in lits : Cardinality(LiteralSites(schema, l)) > 1
        THEN [err |-> <<"enum literal conflict">>, lits |-> <<>>]
        ELSE [err |-> <<>>,
              lits |-> [lit \in lits |->
                          (CHOOSE site \in LiteralSites(schema, lit) : TRUE)[2]]]

\* BuildEnumLiterals: [err, lits]; lits maps a literal to its value index
BuildEnumLiterals(schema) ==
    LET varNames == {schema.Vars[i].Name : i \in 1..Len(schema.Vars)}
        lits == UNION {Range(schema.Vars[i].Values) :
                          i \in {j \in 1..Len(schema.Vars) :
                                    schema.Vars[j].Type = TypeEnum}}
    IN  IF \E l \in lits : l \in varNames \/ Cardinality(LiteralSites(schema, l)) > 1
        THEN [err |-> <<"enum literal conflict">>, lits |-> <<>>]
        ELSE [err |-> <<>>,
              lits |-> [lit \in lits |->
                          (CHOOSE site \in LiteralSites(schema, lit) : TRUE)[2]]]

RECURSIVE Eval(_, _)
\* expr.Eval
Eval(node, env) ==
    LET c1 == Eval(node.Children[1], env)
        c2 == Eval(node.Children[2], env)
        c3 == Eval(node.Children[3], env)
    IN
    CASE node.Type = "NodeLitInt" -> VInt(node.IntVal)
      [] node.Type = "NodeLitBool" -> VBool(node.BoolVal)
      [] node.Type = "NodeVar" ->
            LET idx == VarIndex(env.Schema, node.Name)
            IN  IF idx >= 1
                THEN IF env.Schema.Vars[idx].Type = TypeBool
                     THEN VBool(env.State[idx] = 1)
                     ELSE VInt(env.State[idx])
                ELSE IF node.Name \in DOMAIN env.EnumLiterals
                THEN VInt(env.EnumLiterals[node.Name])
                ELSE VErr(<<"undefined identifier", node.Name>>)
      [] node.Type = "NodeNot" ->
            IF c1.err # <<>> THEN c1
            ELSE IF ~c1.IsBool THEN VErr(<<"'not' requires bool operand">>)
            ELSE VBool(~c1.Bool)
      [] node.Type = "NodeAnd" ->
            IF c1.err # <<>> THEN c1
            ELSE IF c2.err # <<>> THEN c2
            ELSE IF ~c1.IsBool \/ ~c2.IsBool
            THEN VErr(<<"'and' requires bool operands">>)
            ELSE VBool(c1.Bool /\ c2.Bool)
      [] node.Type = "NodeOr" ->
            IF c1.err # <<>> THEN c1
            ELSE IF c2.err # <<>> THEN c2
            ELSE IF ~c1.IsBool \/ ~c2.IsBool
            THEN VErr(<<"'or' requires bool operands">>)
            ELSE VBool(c1.Bool \/ c2.Bool)
      [] node.Type \in {"NodeEq", "NodeNeq"} ->
            IF c1.err # <<>> THEN c1
            ELSE IF c2.err # <<>> THEN c2
            ELSE IF c1.IsBool /\ c2.IsBool
            THEN VBool((c1.Bool = c2.Bool) = (node.Type = "NodeEq"))
            ELSE IF c1.IsInt /\ c2.IsInt
            THEN VBool((c1.Int = c2.Int) = (node.Type = "NodeEq"))
            ELSE VErr(<<"type mismatch in equality comparison">>)
      [] node.Type \in {"NodeLt", "NodeLe", "NodeGt", "NodeGe"} ->
            IF c1.err # <<>> THEN c1
            ELSE IF c2.err # <<>> THEN c2
            ELSE IF ~c1.IsInt \/ ~c2.IsInt
            THEN VErr(<<"comparison requires int operands">>)
            ELSE VBool(CASE node.Type = "NodeLt" -> c1.Int < c2.Int
                         [] node.Type = "NodeLe" -> c1.Int <= c2.Int
                         [] node.Type = "NodeGt" -> c1.Int > c2.Int
                         [] node.Type = "NodeGe" -> c1.Int >= c2.Int)
      [] node.Type \in {"NodeAdd", "NodeSub", "NodeMul", "NodeDiv", "NodeMod"} ->
            IF c1.err # <<>> THEN c1
            ELSE IF c2.err # <<>> THEN c2
            ELSE IF ~c1.IsInt \/ ~c2.IsInt
            THEN VErr(<<"arithmetic requires int operands">>)
            ELSE (CASE node.Type = "NodeAdd" -> VInt(c1.Int + c2.Int)
                   [] node.Type = "NodeSub" -> VInt(c1.Int - c2.Int)
                   [] node.Type = "NodeMul" -> VInt(c1.Int * c2.Int)
                   [] node.Type = "NodeDiv" ->
                        IF c2.Int = 0 THEN VErr(<<"division by zero">>)
                        ELSE VInt(GoDiv(c1.Int, c2.Int))
                   [] node.Type = "NodeMod" ->
                        IF c2.Int = 0 THEN VErr(<<"modulo by zero">>)
                        ELSE VInt(GoMod(c1.Int, c2.Int)))
      [] node.Type = "NodeIf" ->
            IF c1.err # <<>> THEN c1
            ELSE IF ~c1.IsBool THEN VErr(<<"if condition must be bool">>)
            ELSE IF c1.Bool THEN c2 ELSE c3
      [] node.Type = "NodeCall" ->
           (CASE node.Name = <<"m","i","n">> ->
                    IF c1.err # <<>> THEN c1
                    ELSE IF c2.err # <<>> THEN c2
                    ELSE IF ~c1.IsInt \/ ~c2.IsInt
                    THEN VErr(<<"min requires int arguments">>)
                    ELSE IF c1.Int < c2.Int THEN c1 ELSE c2
              [] node.Name = <<"m","a","x">> ->
                    IF c1.err # <<>> THEN c1
                    ELSE IF c2.err # <<>> THEN c2
                    ELSE IF ~c1.IsInt \/ ~c2.IsInt
                    THEN VErr(<<"max requires int arguments">>)
                    ELSE IF c1.Int > c2.Int THEN c1 ELSE c2
              [] node.Name = <<"c","l","a","m","p">> ->
                    IF c1.err # <<>> THEN c1
                    ELSE IF c2.err # <<>> THEN c2
                    ELSE IF c3.err # <<>> THEN c3
                    ELSE IF ~c1.IsInt \/ ~c2.IsInt \/ ~c3.IsInt
                    THEN VErr(<<"clamp requires int arguments">>)
                    ELSE LET v1 == IF c2.Int < c1.Int THEN c1.Int ELSE c2.Int
                         IN  VInt(IF v1 > c3.Int THEN c3.Int ELSE v1)
              [] OTHER -> VErr(<<"unknown function", node.Name>>))
      [] OTHER -> VErr(<<"unknown node type">>)

\* expr.EvalBool: [err, b]
EvalBool(node, env) ==
    LET AsBool(v) ==
            IF v.err # <<>> THEN [err |-> v.err, b |-> FALSE]
            ELSE IF ~v.IsBool
            THEN [err |-> <<"expected bool expression, got int">>, b |-> FALSE]
            ELSE [err |-> <<>>, b |-> v.Bool]
    IN  AsBool(Eval(node, env))

(* ------------------------------------------------------------------ *)
(* verify: Compile                                                     *)
(* ------------------------------------------------------------------ *)

MaxStates == 1000000

MaxRepairIter == 1000

Least(S) == CHOOSE x \in S : \A y \in S : x <= y

\* Go visits a map in an unspecified order. ord is the order of one run: a
\* sequence holding every key name once; a map's keys are visited in the
\* order they have in ord.
KeysInOrder(keys, ord) == SelectSeq(ord, LAMBDA k : k \in keys)

\* the visiting order of a map[int]*Node keyed by variable index
IdxInOrder(schema, idxs, ord) ==
    LET names == SelectSeq(ord, LAMBDA k : VarIndex(schema, k) \in idxs)
    IN  [j \in 1..Len(names) |-> VarIndex(schema, names[j])]

\* the loop over one assignment block in Compile: the first error met
CompileBlockErr(schema, assignments, ord) ==
    LET First(keys, bad) ==
            IF bad = {} THEN <<>>
            ELSE IF VarIndex(schema, keys[Least(bad)]) < 1
            THEN <<"unknown variable", keys[Least(bad)]>>
            ELSE <<"parse error", keys[Least(bad)]>>
        Visit(keys) ==
            First(keys, {j \in 1..Len(keys) :
                            \/ VarIndex(schema, keys[j]) < 1
                            \/ ~Parse(assignments[keys[j]]).ok})
    IN  Visit(KeysInOrder(DOMAIN assignments, ord))

\* repMap / evtMap: variable index -> parsed expression
CompileBlock(schema, assignments) ==
    [idx \in {VarIndex(schema, k) : k \in DOMAIN assignments} |->
        Parse(assignments[schema.Vars[idx].Name]).node]

CompileEventErr(schema, evt, ord) ==
    LET Wrap(e) == IF e = <<>> THEN <<>> ELSE <<"event", evt.Name>> \o e
    IN  IF evt.Guard # <<>> /\ ~Parse(evt.Guard).ok
        THEN <<"event guard", evt.Name>>
        ELSE Wrap(CompileBlockErr(schema, evt.Assignments, ord))

\* the first error of a sequence of errors (<<>> = no error)
FirstErr(errs) ==
    LET bad == {j \in 1..Len(errs) : errs[j] # <<>>}
    IN  IF bad = {} THEN <<>> ELSE errs[Least(bad)]

\* Compile: [err, cr]
Compile(reg, ord) ==
    LET Wrap(name, e) == IF e = <<>> THEN <<>> ELSE <<"repair for", name>> \o e
        Result(schema, lits, err) ==
            IF err # <<>> THEN [err |-> err, cr |-> <<>>]
            ELSE [err |-> <<>>,
                  cr |-> [Reg |-> reg,
                          Schema |-> schema,
                          EnumLiterals |-> lits.lits,
                          InvExprs |-> [i \in 1..Len(reg.Invariants) |->
                                          Parse(reg.Invariants[i].Expr).node],
                          RepExprs |-> [i \in 1..Len(reg.Compensation) |->
                                          CompileBlock(schema, reg.Compensation[i].Assignments)],
                          EvtGuards |-> [i \in 1..Len(reg.Events) |->
                                          IF reg.Events[i].Guard = <<>> THEN NilNode
                                          ELSE Parse(reg.Events[i].Guard).node],
                          EvtExprs |-> [i \in 1..Len(reg.Events) |->
                                          CompileBlock(schema, reg.Events[i].Assignments)]]]
        Check(schema, lits) ==
            Result(schema, lits,
                   IF schema.TotalLen > MaxStates THEN <<"state space too large">>
                   ELSE IF lits.err # <<>> THEN lits.err
                   ELSE FirstErr(
                          [i \in 1..Len(reg.Invariants) |->
                              IF Parse(reg.Invariants[i].Expr).ok THEN <<>>
                              ELSE <<"invariant", reg.Invariants[i].Name>>]
                          \o [i \in 1..Len(reg.Compensation) |->
                                Wrap(reg.Compensation[i].Invariant,
                                     CompileBlockErr(schema, reg.Compensation[i].Assignments,
                                                     ord))]
                          \o [i \in 1..Len(reg.Events) |->
                                CompileEventErr(schema, reg.Events[i], ord)]))
        WithSchema(schema) == Check(schema, BuildEnumLiterals(schema))
    IN  WithSchema(NewSchema(reg.Vars))

(* ------------------------------------------------------------------ *)
(* verify: internal helpers                                            *)
(* ------------------------------------------------------------------ *)

RECURSIVE JoinParts(_)
\* strings.Join(parts, ", ")
JoinParts(parts) ==
    IF Len(parts) = 0 THEN <<>>
    ELSE IF Len(parts) = 1 THEN parts[1]
    ELSE parts[1] \o <<",", " ">> \o JoinParts(Tail(parts))

\* fmtState: "{name=value, ...}" in schema order
fmtState(cr, st) ==
    LET part(i) ==
          LET vd == cr.Schema.Vars[i]
          IN  CASE vd.Type = TypeBool ->
                    vd.Name \o <<"=">> \o
                    (IF st[i] = 1 THEN <<"t","r","u","e">> ELSE <<"f","a","l","s","e">>)
                [] vd.Type = TypeEnum ->
                    IF st[i] >= 0 /\ st[i] < Len(vd.Values)
                    THEN vd.Name \o <<"=">> \o vd.Values[st[i] + 1]
                    ELSE vd.Name \o <<"=", "?">> \o Itoa(st[i])
                [] vd.Type = TypeInt -> vd.Name \o <<"=">> \o Itoa(st[i])
    IN  <<"{">> \o JoinParts([i \in 1..Len(st) |-> part(i)]) \o <<"}">>

makeEnv(cr, st) == NewEnv(cr.Schema, st, cr.EnumLiterals)

RECURSIVE ScanInvariants(_, _, _)
\* the loop "for ri, invExpr := range cr.InvExprs" up to the first invariant
\* that errors or evaluates to false: [err, ri]; ri = 0 when all hold
ScanInvariants(cr, env, ri) ==
    LET Test(v) ==
            IF v.err # <<>> THEN [err |-> v.err, ri |-> ri]
            ELSE IF ~v.b THEN [err |-> <<>>, ri |-> ri]
            ELSE ScanInvariants(cr, env, ri + 1)
    IN  IF ri > Len(cr.InvExprs) THEN [err |-> <<>>, ri |-> 0]
        ELSE Test(EvalBool(cr.InvExprs[ri], env))

\* evalValid: [err, b]
evalValid(cr, st) ==
    LET Verdict(r) == [err |-> r.err, b |-> r.err = <<>> /\ r.ri = 0]
    IN  Verdict(ScanInvariants(cr, makeEnv(cr, st), 1))

\* evalGuard: [err, b]; no guard means always enabled
evalGuard(cr, evtIdx, st) ==
    IF cr.EvtGuards[evtIdx] = NilNode THEN [err |-> <<>>, b |-> TRUE]
    ELSE EvalBool(cr.EvtGuards[evtIdx], makeEnv(cr, st))

\* the checks of one assignment with an int brought back into its range
AssignValueSaturating(cr, v, val, st) ==
    CASE v.Type = TypeBool ->
            IF ~val.IsBool
            THEN [err |-> <<"assignment to bool requires bool value", v.Name>>, enc |-> 0]
            ELSE [err |-> <<>>, enc |-> IF val.Bool THEN 1 ELSE 0]
      [] v.Type = TypeEnum ->
            IF ~val.IsInt
            THEN [err |-> <<"assignment to enum requires enum value", v.Name>>, enc |-> 0]
            ELSE IF val.Int < 0 \/ val.Int >= v.Size
            THEN [err |-> <<"assignment to enum: value out of range", v.Name, val.Int>>,
                  enc |-> 0]
            ELSE [err |-> <<>>, enc |-> val.Int]
      [] v.Type = TypeInt ->
            IF ~val.IsInt
            THEN [err |-> <<"assignment to int requires int value", v.Name>>, enc |-> 0]
            ELSE [err |-> <<>>,
                  enc |-> IF val.Int < v.Min THEN v.Min
                          ELSE IF val.Int > v.Max THEN v.Max ELSE val.Int]

\* the type and range checks of one assignment: [err, enc]
AssignValue(cr, v, val, st) ==
    CASE v.Type = TypeBool ->
            IF ~val.IsBool
            THEN [err |-> <<"assignment to bool requires bool value", v.Name>>, enc |-> 0]
            ELSE [err |-> <<>>, enc |-> IF val.Bool THEN 1 ELSE 0]
      [] v.Type = TypeEnum ->
            IF ~val.IsInt
            THEN [err |-> <<"assignment to enum requires enum value", v.Name>>, enc |-> 0]
            ELSE IF val.Int < 0 \/ val.Int >= v.Size
            THEN [err |-> <<"assignment to enum: value out of range", v.Name, val.Int>>,
                  enc |-> 0]
            ELSE [err |-> <<>>, enc |-> val.Int]
      [] v.Type = TypeInt ->
            IF ~val.IsInt
            THEN [err |-> <<"assignment to int requires int value", v.Name>>, enc |-> 0]
            ELSE IF val.Int < v.Min \/ val.Int > v.Max
            THEN [err |-> <<"SPEC ERROR: assignment computed value out of range",
                            v.Name, val.Int, v.Min, v.Max, fmtState(cr, st)>>,
                  enc |-> 0]
            ELSE [err |-> <<>>, enc |-> val.Int]

RECURSIVE AssignLoop(_, _, _, _, _, _)
\* the loop with every right-hand side evaluated in the state built so far
AssignLoopSequential(cr, assignments, keys, k, st, post) ==
    LET Store(varIdx, val, a) ==
            IF val.err # <<>> THEN [err |-> val.err, post |-> <<>>]
            ELSE IF a.err # <<>> THEN [err |-> a.err, post |-> <<>>]
            ELSE AssignLoop(cr, assignments, keys, k + 1, st,
                            [post EXCEPT ![varIdx] = a.enc])
        Assign(varIdx, val) ==
            Store(varIdx, val, AssignValue(cr, cr.Schema.Vars[varIdx], val, st))
    IN  IF k > Len(keys) THEN [err |-> <<>>, post |-> post]
        ELSE Assign(keys[k], Eval(assignments[keys[k]], makeEnv(cr, post)))

\* the loop of applyAssignments over the keys from position k on: every
\* right-hand side is evaluated in env, the environment of the pre-state st
AssignLoop(cr, assignments, keys, k, st, post) ==
    LET Store(varIdx, val, a) ==
            IF val.err # <<>> THEN [err |-> val.err, post |-> <<>>]
            ELSE IF a.err # <<>> THEN [err |-> a.err, post |-> <<>>]
            ELSE AssignLoop(cr, assignments, keys, k + 1, st,
                            [post EXCEPT ![varIdx] = a.enc])
        Assign(varIdx, val) ==
            Store(varIdx, val, AssignValue(cr, cr.Schema.Vars[varIdx], val, st))
    IN  IF k > Len(keys) THEN [err |-> <<>>, post |-> post]
        ELSE Assign(keys[k], Eval(assignments[keys[k]], makeEnv(cr, st)))

\* applyAssignments with the block's keys visited in the order keys: [err, post]
applyAssignments(cr, assignments, st, keys) ==
    AssignLoop(cr, assignments, keys, 1, st, st)

applyEvent(cr, evtIdx, st, ord) ==
    applyAssignments(cr, cr.EvtExprs[evtIdx], st,
                     IdxInOrder(cr.Schema, DOMAIN cr.EvtExprs[evtIdx], ord))

applyRepair(cr, repIdx, st, ord) ==
    applyAssignments(cr, cr.RepExprs[repIdx], st,
                     IdxInOrder(cr.Schema, DOMAIN cr.RepExprs[repIdx], ord))

\* the iteration applying the repair of the last violated invariant
RepairIterationLastViolated(cr, current, ord) ==
    LET Repaired(ri, newSt) ==
            IF newSt.err # <<>>
            THEN [err |-> newSt.err, repaired |-> FALSE, ri |-> ri, next |-> -1]
            ELSE [err |-> <<>>, repaired |-> TRUE, ri |-> ri,
                  next |-> Encode(cr.Schema, newSt.post)]
        Violated(st, bad) ==
            IF bad = {}
            THEN [err |-> <<>>, repaired |-> FALSE, ri |-> 0, next |-> current]
            ELSE IF (0 - Least({0 - i : i \in bad})) > Len(cr.RepExprs)
            THEN [err |-> <<"no repair defined for invariant">>,
                  repaired |-> FALSE, ri |-> 0 - Least({0 - i : i \in bad}), next |-> -1]
            ELSE Repaired(0 - Least({0 - i : i \in bad}),
                          applyRepair(cr, 0 - Least({0 - i : i \in bad}), st, ord))
        At(st) == Violated(st, {i \in 1..Len(cr.InvExprs) :
                                   ~EvalBool(cr.InvExprs[i], makeEnv(cr, st)).b})
    IN  At(Decode(cr.Schema, current))

\* the iteration applying the repair whose invariant field names the violated
\* invariant
RepairIterationByName(cr, current, ord) ==
    LET Repaired(ri, newSt) ==
            IF newSt.err # <<>>
            THEN [err |-> newSt.err, repaired |-> FALSE, ri |-> ri, next |-> -1]
            ELSE [err |-> <<>>, repaired |-> TRUE, ri |-> ri,
                  next |-> Encode(cr.Schema, newSt.post)]
        Declared(ri) ==
            {k \in 1..Len(cr.Reg.Compensation) :
                cr.Reg.Compensation[k].Invariant = cr.Reg.Invariants[ri].Name}
        Violated(st, scan) ==
            IF scan.err # <<>>
            THEN [err |-> scan.err, repaired |-> FALSE, ri |-> scan.ri, next |-> -1]
            ELSE IF scan.ri = 0
            THEN [err |-> <<>>, repaired |-> FALSE, ri |-> 0, next |-> current]
            ELSE IF Declared(scan.ri) = {}
            THEN [err |-> <<"no repair defined for invariant",
                            cr.Reg.Invariants[scan.ri].Name>>,
                  repaired |-> FALSE, ri |-> scan.ri, next |-> -1]
            ELSE Repaired(scan.ri, applyRepair(cr, Least(Declared(scan.ri)), st, ord))
        At(st) == Violated(st, ScanInvariants(cr, makeEnv(cr, st), 1))
    IN  At(Decode(cr.Schema, current))

\* one iteration of computeNF's loop at an invalid state current:
\* [err, repaired, ri, next]
RepairIteration(cr, current, ord) ==
    LET Repaired(ri, newSt) ==
            IF newSt.err # <<>>
            THEN [err |-> newSt.err, repaired |-> FALSE, ri |-> ri, next |-> -1]
            ELSE [err |-> <<>>, repaired |-> TRUE, ri |-> ri,
                  next |-> Encode(cr.Schema, newSt.post)]
        Violated(st, scan) ==
            IF scan.err # <<>>
            THEN [err |-> scan.err, repaired |-> FALSE, ri |-> scan.ri, next |-> -1]
            ELSE IF scan.ri = 0
            THEN [err |-> <<>>, repaired |-> FALSE, ri |-> 0, next |-> current]
            ELSE IF scan.ri > Len(cr.RepExprs)
            THEN [err |-> <<"no repair defined for invariant",
                            cr.Reg.Invariants[scan.ri].Name>>,
                  repaired |-> FALSE, ri |-> scan.ri, next |-> -1]
            ELSE Repaired(scan.ri, applyRepair(cr, scan.ri, st, ord))
        At(st) == Violated(st, ScanInvariants(cr, makeEnv(cr, st), 1))
    IN  At(Decode(cr.Schema, current))

\* the loop body returning after its first repair
NFBodyOneRepair(cr, validTab, ord, x) ==
    LET Advance(r) ==
            IF r.err # <<>> THEN [x EXCEPT !.done = TRUE, !.err = r.err, !.nf = -1]
            ELSE IF ~r.repaired THEN [x EXCEPT !.done = TRUE, !.nf = x.current]
            ELSE [x EXCEPT !.done = TRUE, !.nf = r.next, !.current = r.next,
                           !.steps = @ \cup {[at |-> x.current, ri |-> r.ri, to |-> r.next]}]
    IN  IF validTab[x.current] THEN [x EXCEPT !.done = TRUE, !.nf = x.current]
        ELSE Advance(RepairIteration(cr, x.current, ord))

\* one pass through the body of computeNF's for loop. The loop's state is
\* [done, err, nf, current, steps]; steps is the set of the repairs applied so
\* far, each as [at, ri, to].
NFBody(cr, validTab, ord, x) ==
    LET Advance(r) ==
            IF r.err # <<>> THEN [x EXCEPT !.done = TRUE, !.err = r.err, !.nf = -1]
            ELSE IF ~r.repaired THEN [x EXCEPT !.done = TRUE, !.nf = x.current]
            ELSE [x EXCEPT !.current = r.next,
                           !.steps = @ \cup {[at |-> x.current, ri |-> r.ri, to |-> r.next]}]
    IN  IF validTab[x.current] THEN [x EXCEPT !.done = TRUE, !.nf = x.current]
        ELSE Advance(RepairIteration(cr, x.current, ord))

RECURSIVE NFIter(_, _, _, _, _)
\* n passes through the loop body, or fewer when the loop returns earlier;
\* the passes are grouped in halves to keep the evaluation shallow
NFIter(cr, validTab, ord, x, n) ==
    IF x.done \/ n = 0 THEN x
    ELSE IF n = 1 THEN NFBody(cr, validTab, ord, x)
    ELSE NFIter(cr, validTab, ord, NFIter(cr, validTab, ord, x, n \div 2), n - (n \div 2))

\* the loop with one more pass than MaxRepairIter
NFLoopOneMore(cr, validTab, ord, sid) ==
    LET After(x) ==
            IF x.done THEN [err |-> x.err, nf |-> x.nf, steps |-> x.steps]
            ELSE [err |-> <<"compensation did not terminate",
                            fmtState(cr, Decode(cr.Schema, sid))>>,
                  nf |-> -1, steps |-> x.steps]
    IN  After(NFIter(cr, validTab, ord,
                     [done |-> FALSE, err |-> <<>>, nf |-> -1, current |-> sid,
                      steps |-> {}],
                     MaxRepairIter + 1))

\* computeNF's loop and the error after it: [err, nf, steps]
NFLoop(cr, validTab, ord, sid) ==
    LET After(x) ==
            IF x.done THEN [err |-> x.err, nf |-> x.nf, steps |-> x.steps]
            ELSE [err |-> <<"compensation did not terminate",
                            fmtState(cr, Decode(cr.Schema, sid))>>,
                  nf |-> -1, steps |-> x.steps]
    IN  After(NFIter(cr, validTab, ord,
                     [done |-> FALSE, err |-> <<>>, nf |-> -1, current |-> sid,
                      steps |-> {}],
                     MaxRepairIter))

\* computeNF
computeNF(cr, validTab, ord, sid) == NFLoop(cr, validTab, ord, sid)

RECURSIVE DepthLoop(_, _, _, _, _)
\* repairDepth's loop: [err, depth]. It applies cr.RepExprs[ri] without the
\* bound check of computeNF; an index past the list is a run-time panic.
DepthLoop(cr, validTab, ord, current, depth) ==
    LET Repaired(newSt) ==
            IF newSt.err # <<>> THEN [err |-> newSt.err, depth |-> 0]
            ELSE DepthLoop(cr, validTab, ord, Encode(cr.Schema, newSt.post), depth + 1)
        Violated(st, scan) ==
            IF scan.err # <<>> THEN [err |-> scan.err, depth |-> 0]
            ELSE IF scan.ri = 0 THEN [err |-> <<>>, depth |-> depth]
            ELSE IF scan.ri > Len(cr.RepExprs)
            THEN [err |-> <<"panic: index out of range">>, depth |-> 0]
            ELSE Repaired(applyRepair(cr, scan.ri, st, ord))
        At(st) == Violated(st, ScanInvariants(cr, makeEnv(cr, st), 1))
    IN  IF depth >= MaxRepairIter
        THEN [err |-> <<"repair did not terminate">>, depth |-> MaxRepairIter]
        ELSE IF validTab[current] THEN [err |-> <<>>, depth |-> depth]
        ELSE At(Decode(cr.Schema, current))

\* repairDepth with a cap of one repair in place of MaxRepairIter
repairDepthCapOne(cr, validTab, ord, sid) ==
    IF DepthLoop(cr, validTab, ord, sid, 0).depth > 1
    THEN [err |-> <<"repair did not terminate">>, depth |-> MaxRepairIter]
    ELSE DepthLoop(cr, validTab, ord, sid, 0)

\* repairDepth counting the start state as a step
repairDepthCountingStart(cr, validTab, ord, sid) == DepthLoop(cr, validTab, ord, sid, 1)

repairDepth(cr, validTab, ord, sid) == DepthLoop(cr, validTab, ord, sid, 0)

(* ------------------------------------------------------------------ *)
(* verify: BuildTables, in its three numbered steps                    *)
(* ------------------------------------------------------------------ *)

StateIDs(cr) == 0..(cr.Schema.TotalLen - 1)

\* step 1: [err, tab]; cells after the failing state keep Go's zero value
BuildValidTable(cr) ==
    LET Table(r, bad) ==
            IF bad = {}
            THEN [err |-> <<>>, tab |-> [sid \in StateIDs(cr) |-> r[sid].b]]
            ELSE [err |-> <<"validity check at state",
                            fmtState(cr, Decode(cr.Schema, Least(bad)))>>
                          \o r[Least(bad)].err,
                  tab |-> [sid \in StateIDs(cr) |-> sid < Least(bad) /\ r[sid].b]]
        Rows(r) == Table(r, {sid \in StateIDs(cr) : r[sid].err # <<>>})
    IN  Rows([sid \in StateIDs(cr) |-> evalValid(cr, Decode(cr.Schema, sid))])

\* step 2: [err, tab, log]; log holds the repairs applied by the calls made
BuildNFTable(cr, validTab, ord) ==
    LET Table(r, bad) ==
            IF bad = {}
            THEN [err |-> <<>>,
                  tab |-> [sid \in StateIDs(cr) |-> r[sid].nf],
                  log |-> UNION {r[sid].steps : sid \in StateIDs(cr)}]
            ELSE [err |-> <<"normal form at state",
                            fmtState(cr, Decode(cr.Schema, Least(bad)))>>
                          \o r[Least(bad)].err,
                  tab |-> [sid \in StateIDs(cr) |->
                             IF sid < Least(bad) THEN r[sid].nf ELSE 0],
                  log |-> UNION {r[sid].steps : sid \in 0..Least(bad)}]
        Rows(r) == Table(r, {sid \in StateIDs(cr) : r[sid].err # <<>>})
    IN  Rows([sid \in StateIDs(cr) |-> computeNF(cr, validTab, ord, sid)])

\* a cell of step 3 with the event applied to the normal form of the state
StepCellOnNF(cr, nfTab, ord, ei, sid) ==
    LET Applied(st, post) ==
            IF post.err # <<>>
            THEN [err |-> <<"event at state", cr.Reg.Events[ei].Name,
                            fmtState(cr, st)>> \o post.err, v |-> 0]
            ELSE [err |-> <<>>, v |-> nfTab[Encode(cr.Schema, post.post)]]
        Guarded(st, enabled) ==
            IF enabled.err # <<>>
            THEN [err |-> <<"event guard at state", cr.Reg.Events[ei].Name,
                            fmtState(cr, st)>> \o enabled.err, v |-> 0]
            ELSE IF ~enabled.b THEN [err |-> <<>>, v |-> -1]
            ELSE Applied(st, applyEvent(cr, ei, Decode(cr.Schema, nfTab[sid]), ord))
        At(st) == Guarded(st, evalGuard(cr, ei, st))
    IN  At(Decode(cr.Schema, sid))

\* one cell of step 3: [err, v]
StepCell(cr, nfTab, ord, ei, sid) ==
    LET Applied(st, post) ==
            IF post.err # <<>>
            THEN [err |-> <<"event at state", cr.Reg.Events[ei].Name,
                            fmtState(cr, st)>> \o post.err, v |-> 0]
            ELSE [err |-> <<>>, v |-> nfTab[Encode(cr.Schema, post.post)]]
        Guarded(st, enabled) ==
            IF enabled.err # <<>>
            THEN [err |-> <<"event guard at state", cr.Reg.Events[ei].Name,
                            fmtState(cr, st)>> \o enabled.err, v |-> 0]
            ELSE IF ~enabled.b THEN [err |-> <<>>, v |-> -1]
            ELSE Applied(st, applyEvent(cr, ei, st, ord))
        At(st) == Guarded(st, evalGuard(cr, ei, st))
    IN  At(Decode(cr.Schema, sid))

\* step 3: [err, tab]; tab[ei][sid], rows after the failing event stay nil
BuildStepTable(cr, nfTab, ord) ==
    LET numEvts == Len(cr.Reg.Events)
        n == cr.Schema.TotalLen
        Table(c, bad) ==
            IF bad = {}
            THEN [err |-> <<>>,
                  tab |-> [ei \in 1..numEvts |->
                             [sid \in StateIDs(cr) |-> c[(ei - 1) * n + sid].v]]]
            ELSE [err |-> c[Least(bad)].err,
                  tab |-> [ei \in 1..numEvts |->
                             IF ei > (Least(bad) \div n) + 1 THEN <<>>
                             ELSE [sid \in StateIDs(cr) |->
                                     IF (ei - 1) * n + sid < Least(bad)
                                     THEN c[(ei - 1) * n + sid].v ELSE 0]]]
        Cells(c) == Table(c, {k \in 0..(numEvts * n - 1) : c[k].err # <<>>})
    IN  Cells([k \in 0..(numEvts * n - 1) |->
                 StepCell(cr, nfTab, ord, (k \div n) + 1, k % n)])

(* ------------------------------------------------------------------ *)
(* verify: CheckWFC                                                    *)
(* ------------------------------------------------------------------ *)

NoBadState == <<>>

\* CheckWFC with the validity test made on the state instead of its normal form
CheckWFCValidOfState(cr, validTab, nfTab, ord) ==
    LET notValid(sid) == ~validTab[sid]
        notFixed(sid) == validTab[sid] /\ nfTab[sid] # sid
        bad == {sid \in StateIDs(cr) : notValid(sid) \/ notFixed(sid)}
    IN  IF bad # {}
        THEN [pass |-> FALSE, maxDepth |-> 0, err |-> <<>>,
              badState |-> [state |-> fmtState(cr, Decode(cr.Schema, Least(bad))),
                            nf |-> fmtState(cr, Decode(cr.Schema, nfTab[Least(bad)])),
                            why |-> IF notValid(Least(bad)) THEN "which is not valid"
                                    ELSE "(not a fixpoint)"]]
        ELSE [pass |-> TRUE, badState |-> NoBadState, err |-> <<>>, maxDepth |-> 0]

\* CheckWFC: [pass, maxDepth, badState, err]
CheckWFC(cr, validTab, nfTab, ord) ==
    LET notValid(sid) == ~validTab[nfTab[sid]]
        notFixed(sid) == validTab[sid] /\ nfTab[sid] # sid
        bad == {sid \in StateIDs(cr) : notValid(sid) \/ notFixed(sid)}
        Deepest(depths) == CHOOSE m \in depths : \A x \in depths : x <= m
        Depths(d, badDepth) ==
            IF badDepth # {}
            THEN [pass |-> FALSE, maxDepth |-> 0, badState |-> NoBadState,
                  err |-> d[Least(badDepth)].err]
            ELSE [pass |-> TRUE, badState |-> NoBadState, err |-> <<>>,
                  maxDepth |-> Deepest({d[sid].depth : sid \in StateIDs(cr)} \cup {0})]
        Rows(d) == Depths(d, {sid \in StateIDs(cr) : d[sid].err # <<>>})
    IN  IF bad # {}
        THEN [pass |-> FALSE, maxDepth |-> 0, err |-> <<>>,
              badState |-> [state |-> fmtState(cr, Decode(cr.Schema, Least(bad))),
                            nf |-> fmtState(cr, Decode(cr.Schema, nfTab[Least(bad)])),
                            why |-> IF notValid(Least(bad)) THEN "which is not valid"
                                    ELSE "(not a fixpoint)"]]
        ELSE Rows([sid \in StateIDs(cr) |-> repairDepth(cr, validTab, ord, sid)])

(* ------------------------------------------------------------------ *)
(* verify: CheckCC                                                     *)
(* ------------------------------------------------------------------ *)

isIdentChar(b) == b \in LowerChars \cup UpperChars \cup DigitChars \cup {"_"}

\* containsIdent giving up after the first occurrence of ident
containsIdentFirstMatch(s, ident) ==
    \E absPos \in 1..Len(s) :
        /\ MatchAt(s, ident, absPos)
        /\ \A p \in 1..(absPos - 1) : ~MatchAt(s, ident, p)
        /\ (absPos = 1 \/ ~isIdentChar(s[absPos - 1]))
        /\ (absPos + Len(ident) > Len(s) \/ ~isIdentChar(s[absPos + Len(ident)]))

\* containsIdent: some occurrence of ident in s has no identifier character
\* right before it and none right after it
containsIdent(s, ident) ==
    \E absPos \in 1..Len(s) :
        /\ MatchAt(s, ident, absPos)
        /\ (absPos = 1 \/ ~isIdentChar(s[absPos - 1]))
        /\ (absPos + Len(ident) > Len(s) \/ ~isIdentChar(s[absPos + Len(ident)]))

\* sets[ei].writes
EvtWrites(cr, ei) == DOMAIN cr.EvtExprs[ei]

\* sets[ei].reads
EvtReads(cr, ei) ==
    LET evt == cr.Reg.Events[ei]
        named(txt) == {VarIndex(cr.Schema, cr.Schema.Vars[i].Name) :
                          i \in {j \in 1..Len(cr.Schema.Vars) :
                                    containsIdent(txt, cr.Schema.Vars[j].Name)}}
    IN  (IF evt.Guard # <<>> THEN named(evt.Guard) ELSE {})
        \cup UNION {named(evt.Assignments[k]) : k \in DOMAIN evt.Assignments}

\* the test of the writes of e1 only
isIndependentOneWay(cr, e1, e2) ==
    \A w \in EvtWrites(cr, e1) : w \notin EvtWrites(cr, e2) \cup EvtReads(cr, e2)

isIndependent(cr, e1, e2) ==
    /\ \A w \in EvtWrites(cr, e1) : w \notin EvtWrites(cr, e2) \cup EvtReads(cr, e2)
    /\ \A w \in EvtWrites(cr, e2) : w \notin EvtWrites(cr, e1) \cup EvtReads(cr, e1)

\* the pairs with e2 starting at e1 in place of e1 + 1
EventPairsWithSelf(numEvts) ==
    LET ps == {p \in (1..numEvts) \X (1..numEvts) : p[1] <= p[2]}
        rank(p) == Cardinality({q \in ps : q[1] < p[1] \/ (q[1] = p[1] /\ q[2] < p[2])})
    IN  [k \in 1..Cardinality(ps) |-> CHOOSE p \in ps : rank(p) = k - 1]

\* the pairs e1 < e2 in the order the two outer loops of CC1 visit them
EventPairs(numEvts) ==
    LET ps == {p \in (1..numEvts) \X (1..numEvts) : p[1] < p[2]}
        rank(p) == Cardinality({q \in ps : q[1] < p[1] \/ (q[1] = p[1] /\ q[2] < p[2])})
    IN  [k \in 1..Cardinality(ps) |-> CHOOSE p \in ps : rank(p) = k - 1]

\* the CC1 comparison without the skip on a disabled second step
CC1DiffersNoSkip(stepTab, e1, e2, sid) ==
    /\ stepTab[e1][sid] # -1
    /\ stepTab[e2][sid] # -1
    /\ stepTab[e2][stepTab[e1][sid]] # stepTab[e1][stepTab[e2][sid]]

\* the comparison CC1 makes at one state for one pair
CC1Differs(stepTab, e1, e2, sid) ==
    LET s1 == stepTab[e1][sid]
        s2 == stepTab[e2][sid]
    IN  /\ s1 # -1
        /\ s2 # -1
        /\ stepTab[e2][s1] # -1
        /\ stepTab[e1][s2] # -1
        /\ stepTab[e2][s1] # stepTab[e1][s2]

\* the CC2 comparison without the skip on an event disabled at the normal form
CC2DiffersNoSkip(stepTab, nfTab, ei, sid) ==
    /\ stepTab[ei][sid] # -1
    /\ stepTab[ei][sid] # stepTab[ei][nfTab[sid]]

\* the comparison CC2 makes at one state for one event
CC2Differs(stepTab, nfTab, ei, sid) ==
    /\ stepTab[ei][sid] # -1
    /\ stepTab[ei][nfTab[sid]] # -1
    /\ stepTab[ei][sid] # stepTab[ei][nfTab[sid]]

CCResultZero ==
    [CCPass |-> FALSE, CC1Pass |-> FALSE, CC2Pass |-> FALSE,
     PairsChecked |-> 0, DependentSkipped |-> 0,
     CC1FailEvent1 |-> <<>>, CC1FailEvent2 |-> <<>>, CC1FailState |-> <<>>,
     CC1FailNF1 |-> <<>>, CC1FailNF2 |-> <<>>,
     CC2FailEvent |-> <<>>, CC2FailState |-> <<>>, CC2FailNFState |-> <<>>,
     CC2FailNF1 |-> <<>>, CC2FailNF2 |-> <<>>]

RECURSIVE CC1Loop(_, _, _, _, _)
\* the CC1 loops reporting the end states of the two orders in each other's
\* place
CC1LoopOrdersSwapped(cr, stepTab, pairs, k, result) ==
    IF k > Len(pairs) \/ ~result.CC1Pass THEN result
    ELSE LET e1 == pairs[k][1]
             e2 == pairs[k][2]
             bad == {sid \in StateIDs(cr) : CC1Differs(stepTab, e1, e2, sid)}
             fmt(id) == fmtState(cr, Decode(cr.Schema, id))
         IN  IF ~isIndependent(cr, e1, e2)
             THEN CC1Loop(cr, stepTab, pairs, k + 1,
                          [result EXCEPT !.DependentSkipped = @ + 1])
             ELSE IF bad = {}
             THEN CC1Loop(cr, stepTab, pairs, k + 1,
                          [result EXCEPT !.PairsChecked = @ + 1])
             ELSE [result EXCEPT
                     !.PairsChecked = @ + 1,
                     !.CC1Pass = FALSE,
                     !.CC1FailEvent1 = cr.Reg.Events[e1].Name,
                     !.CC1FailEvent2 = cr.Reg.Events[e2].Name,
                     !.CC1FailState = fmt(Least(bad)),
                     !.CC1FailNF1 = fmt(stepTab[e1][stepTab[e2][Least(bad)]]),
                     !.CC1FailNF2 = fmt(stepTab[e2][stepTab[e1][Least(bad)]])]

\* the CC1 loops from the k-th pair on; they stop once CC1Pass is false
CC1Loop(cr, stepTab, pairs, k, result) ==
    IF k > Len(pairs) \/ ~result.CC1Pass THEN result
    ELSE LET e1 == pairs[k][1]
             e2 == pairs[k][2]
             bad == {sid \in StateIDs(cr) : CC1Differs(stepTab, e1, e2, sid)}
             fmt(id) == fmtState(cr, Decode(cr.Schema, id))
         IN  IF ~isIndependent(cr, e1, e2)
             THEN CC1Loop(cr, stepTab, pairs, k + 1,
                          [result EXCEPT !.DependentSkipped = @ + 1])
             ELSE IF bad = {}
             THEN CC1Loop(cr, stepTab, pairs, k + 1,
                          [result EXCEPT !.PairsChecked = @ + 1])
             ELSE [result EXCEPT
                     !.PairsChecked = @ + 1,
                     !.CC1Pass = FALSE,
                     !.CC1FailEvent1 = cr.Reg.Events[e1].Name,
                     !.CC1FailEvent2 = cr.Reg.Events[e2].Name,
                     !.CC1FailState = fmt(Least(bad)),
                     !.CC1FailNF1 = fmt(stepTab[e2][stepTab[e1][Least(bad)]]),
                     !.CC1FailNF2 = fmt(stepTab[e1][stepTab[e2][Least(bad)]])]

\* the CC1 part of CheckCC
CheckCC1(cr, stepTab) ==
    CC1Loop(cr, stepTab, EventPairs(Len(cr.Reg.Events)), 1,
            [CCResultZero EXCEPT !.CC1Pass = TRUE])

\* the CC2 part with the states in the outer loop and the events in the inner
CheckCC2StatesOuter(cr, stepTab, nfTab, result) ==
    LET numEvts == Len(cr.Reg.Events)
        n == cr.Schema.TotalLen
        bad == {k \in 0..(numEvts * n - 1) :
                   CC2Differs(stepTab, nfTab, (k % numEvts) + 1, k \div numEvts)}
        ei == (Least(bad) % numEvts) + 1
        sid == Least(bad) \div numEvts
        fmt(id) == fmtState(cr, Decode(cr.Schema, id))
    IN  IF bad = {} THEN [result EXCEPT !.CC2Pass = TRUE]
        ELSE [result EXCEPT
                !.CC2Pass = FALSE,
                !.CC2FailEvent = cr.Reg.Events[ei].Name,
                !.CC2FailState = fmt(sid),
                !.CC2FailNFState = fmt(nfTab[sid]),
                !.CC2FailNF1 = fmt(stepTab[ei][sid]),
                !.CC2FailNF2 = fmt(stepTab[ei][nfTab[sid]])]

\* the CC2 part of CheckCC, continuing from CC1's result
CheckCC2(cr, stepTab, nfTab, result) ==
    LET numEvts == Len(cr.Reg.Events)
        n == cr.Schema.TotalLen
        bad == {k \in 0..(numEvts * n - 1) :
                   CC2Differs(stepTab, nfTab, (k \div n) + 1, k % n)}
        ei == (Least(bad) \div n) + 1
        sid == Least(bad) % n
        fmt(id) == fmtState(cr, Decode(cr.Schema, id))
    IN  IF bad = {} THEN [result EXCEPT !.CC2Pass = TRUE]
        ELSE [result EXCEPT
                !.CC2Pass = FALSE,
                !.CC2FailEvent = cr.Reg.Events[ei].Name,
                !.CC2FailState = fmt(sid),
                !.CC2FailNFState = fmt(nfTab[sid]),
                !.CC2FailNF1 = fmt(stepTab[ei][sid]),
                !.CC2FailNF2 = fmt(stepTab[ei][nfTab[sid]])]

\* CheckCC with CCPass taken from CC1 alone
CheckCCOnlyCC1(cr, stepTab, nfTab) ==
    LET Both(r) == [r EXCEPT !.CCPass = r.CC1Pass]
    IN  Both(CheckCC2(cr, stepTab, nfTab, CheckCC1(cr, stepTab)))

\* CheckCC
CheckCC(cr, stepTab, nfTab) ==
    LET Both(r) == [r EXCEPT !.CCPass = r.CC1Pass /\ r.CC2Pass]
    IN  Both(CheckCC2(cr, stepTab, nfTab, CheckCC1(cr, stepTab)))

(* ------------------------------------------------------------------ *)
(* registry: Parse (the decoded YAML tree to the Registry)             *)
(* ------------------------------------------------------------------ *)

\* YAML scalars of an effect / repair mapping
YStr(txt) == [kind |-> "str", s |-> txt, b |-> FALSE, i |-> 0]

YBool(b) == [kind |-> "bool", s |-> <<>>, b |-> b, i |-> 0]

YInt(i) == [kind |-> "int", s |-> <<>>, b |-> FALSE, i |-> i]

\* fmt.Sprintf("%v", v)
FormatV(v) ==
    CASE v.kind = "str" -> v.s
      [] v.kind = "bool" -> IF v.b THEN <<"t","r","u","e">> ELSE <<"f","a","l","s","e">>
      [] v.kind = "int" -> Itoa(v.i)

\* registry.Parse: [err, reg]
ParseRegistry(r) ==
    LET vds == [i \in 1..Len(r.States) |-> parseVarDef(r.States[i].Name, r.States[i].Var)]
        fmtBlock(m) == [k \in DOMAIN m |-> FormatV(m[k])]
    IN  IF r.Name = <<>> THEN [err |-> <<"registry must have a name">>, reg |-> <<>>]
        ELSE IF \E i \in 1..Len(vds) : ~vds[i].ok
        THEN [err |-> <<"bad state variable">>, reg |-> <<>>]
        ELSE [err |-> <<>>,
              reg |-> [Name |-> r.Name,
                       Vars |-> [i \in 1..Len(vds) |-> vds[i].vd],
                       Invariants |-> r.Invariants,
                       Compensation |->
                          [i \in 1..Len(r.Compensation) |->
                              [Invariant |-> r.Compensation[i].Invariant,
                               Assignments |-> fmtBlock(r.Compensation[i].Repair)]],
                       Events |->
                          [i \in 1..Len(r.Events) |->
                              [Name |-> r.Events[i].Name,
                               Guard |-> r.Events[i].Guard,
                               Assignments |-> fmtBlock(r.Events[i].Effect)]]]]

(* ------------------------------------------------------------------ *)
(* main                                                                *)
(* ------------------------------------------------------------------ *)

\* allPass with || in place of &&
AllPassEither(wfcPass, ccResult) == wfcPass \/ ccResult.CCPass

\* allPass := wfcPass && ccResult.CCPass
AllPass(wfcPass, ccResult) == wfcPass /\ ccResult.CCPass

\* the front end's state: the decoded spec file (raw), the map visiting order
\* of this run (order), the position in main (pc), and what main holds
VARIABLES raw, order, pc, reg, cr, Valid, NF, Step, repairLog, wfc, cc,
          stderr, verdict, exitCode

vars == <<raw, order, pc, reg, cr, Valid, NF, Step, repairLog, wfc, cc,
          stderr, verdict, exitCode>>

(* ------------------------------------------------------------------ *)
(* The spec files the model is run on                                  *)
(* ------------------------------------------------------------------ *)

MaxEvents == 2

BoolVar == [Type |-> <<"b","o","o","l">>, Values |-> <<>>, Range |-> <<>>]

IntVar(lo, hi) == [Type |-> <<"i","n","t">>, Values |-> <<>>, Range |-> <<lo, hi>>]

EnumVar(values) == [Type |-> <<"e","n","u","m">>, Values |-> values, Range |-> <<>>]

StateDecl(name, var) == [Name |-> name, Var |-> var]

Inv(name, expr) == [Name |-> name, Expr |-> expr]

Rep(invName, repair) == [Invariant |-> invName, Repair |-> repair]

Evt(name, guard, effect) == [Name |-> name, Guard |-> guard, Effect |-> effect]

RawRegistry(name, states, invs, comp, events) ==
    [Name |-> name, States |-> states, Invariants |-> invs,
     Compensation |-> comp, Events |-> events]

\* two booleans a and b
StatesAB == <<StateDecl(<<"a">>, BoolVar), StateDecl(<<"b">>, BoolVar)>>

EventPoolAB ==
    << Evt(<<"s","e","t","_","a">>, <<>>, (<<"a">> :> YBool(TRUE))),
       Evt(<<"c","l","e","a","r","_","a">>, <<>>, (<<"a">> :> YBool(FALSE))),
       Evt(<<"s","e","t","_","b">>, <<>>, (<<"b">> :> YBool(TRUE))),
       Evt(<<"c","l","e","a","r","_","b">>, <<>>, (<<"b">> :> YBool(FALSE))),
       Evt(<<"s","w","a","p">>, <<>>, (<<"a">> :> YStr(<<"b">>)) @@ (<<"b">> :> YStr(<<"a">>))),
       Evt(<<"c","o","p","y">>, <<"a"," ","o","r"," ","b">>, (<<"b">> :> YStr(<<"a">>))),
       Evt(<<"o","n","c","e","_","a">>, <<"n","o","t"," ","a">>, (<<"a">> :> YBool(TRUE))) >>

\* invariant lists with their compensation lists
InvPoolAB ==
    << [Invariants |-> <<>>, Compensation |-> <<>>],
       [Invariants |-> <<Inv(<<"w","_","n","e","e","d","s","_","r">>, <<"n","o","t"," ","b"," ","o","r"," ","a">>)>>,
        Compensation |-> <<Rep(<<"w","_","n","e","e","d","s","_","r">>, (<<"b">> :> YBool(FALSE)))>>],
       [Invariants |-> <<Inv(<<"s","o","m","e">>, <<"a"," ","o","r"," ","b">>), Inv(<<"s","a","m","e">>, <<"a"," ","=","="," ","b">>)>>,
        Compensation |-> <<Rep(<<"s","o","m","e">>, (<<"a">> :> YBool(TRUE))),
                           Rep(<<"s","a","m","e">>, (<<"b">> :> YStr(<<"a">>)))>>],
       [Invariants |-> <<Inv(<<"n","e","e","d","_","a">>, <<"a">>), Inv(<<"n","e","e","d","_","b">>, <<"b">>)>>,
        Compensation |-> <<Rep(<<"n","e","e","d","_","a">>, (<<"a">> :> YBool(TRUE))),
                           Rep(<<"n","e","e","d","_","b">>, (<<"b">> :> YBool(TRUE)))>>],
       [Invariants |-> <<Inv(<<"n","e","e","d","_","a">>, <<"a">>)>>, Compensation |-> <<>>] >>

\* the sequences of k distinct events of the pool
EventChoices(k) ==
    {c \in [1..k -> 1..Len(EventPoolAB)] : \A i, j \in 1..k : i # j => c[i] # c[j]}

FamilyAB ==
    {RawRegistry(<<"a","b">>, StatesAB, InvPoolAB[v].Invariants, InvPoolAB[v].Compensation,
                 [j \in 1..k |-> EventPoolAB[c[j]]]) :
        <<v, k, c>> \in {t \in (1..Len(InvPoolAB)) \X (0..MaxEvents)
                                \X UNION {EventChoices(m) : m \in 0..MaxEvents} :
                            t[3] \in EventChoices(t[2])}}

\* a bounded counter, with a lower bound below zero
CounterEvents(hi) ==
    << Evt(<<"i","n","c">>, <<"n"," ","<"," ">> \o Itoa(hi), (<<"n">> :> YStr(<<"n"," ","+"," ","1">>))),
       Evt(<<"d","e","c">>, <<"n"," ",">"," ","0">>, (<<"n">> :> YStr(<<"n"," ","-"," ","1">>))) >>

Counter(lo, hi, events) ==
    RawRegistry(<<"c","o","u","n","t","e","r">>, <<StateDecl(<<"n">>, IntVar(lo, hi))>>,
                <<Inv(<<"n","o","n","n","e","g">>, <<"n"," ",">","="," ","0">>)>>,
                <<Rep(<<"n","o","n","n","e","g">>, (<<"n">> :> YInt(0)))>>, events)

\* order fulfilment with a destructive compensation
Fulfilment ==
    RawRegistry(<<"o","r","d","e","r","s">>,
                <<StateDecl(<<"o","r","d","e","r">>, EnumVar(<<<<"n","e","w">>, <<"p","a","i","d">>, <<"s","h","i","p","p","e","d">>>>)),
                  StateDecl(<<"p","a","y","m","e","n","t">>, EnumVar(<<<<"n","o","n","e">>, <<"c","a","p","t","u","r","e","d">>, <<"r","e","f","u","n","d","e","d">>>>))>>,
                <<Inv(<<"p","a","i","d","_","s","h","i","p">>, <<"o","r","d","e","r"," ","!","="," ","s","h","i","p","p","e","d"," ","o","r"," ","p","a","y","m","e","n","t"," ","=","="," ","c","a","p","t","u","r","e","d">>)>>,
                <<Rep(<<"p","a","i","d","_","s","h","i","p">>, (<<"o","r","d","e","r">> :> YStr(<<"p","a","i","d">>)))>>,
                << Evt(<<"s","h","i","p">>, <<"p","a","y","m","e","n","t"," ","=","="," ","c","a","p","t","u","r","e","d">>, (<<"o","r","d","e","r">> :> YStr(<<"s","h","i","p","p","e","d">>))),
                   Evt(<<"r","e","f","u","n","d">>, <<>>, (<<"p","a","y","m","e","n","t">> :> YStr(<<"r","e","f","u","n","d","e","d">>))) >>)

\* four integers l, x, h and r between -1 and 1
StatesLXHR ==
    <<StateDecl(<<"l">>, IntVar(-1, 1)), StateDecl(<<"x">>, IntVar(-1, 1)),
      StateDecl(<<"h">>, IntVar(-1, 1)), StateDecl(<<"r">>, IntVar(-1, 1))>>

Scenarios ==
    { Counter(0, 3, CounterEvents(3)),
      Counter(-1, 2, CounterEvents(2)),
      Fulfilment,
      \* schemas mixing the three variable types
      RawRegistry(<<"m","i","x">>, <<StateDecl(<<"f">>, BoolVar), StateDecl(<<"n">>, IntVar(-2, 1)),
                           StateDecl(<<"e">>, EnumVar(<<<<"x">>, <<"y">>, <<"z">>>>))>>,
                  <<Inv(<<"l","o","w">>, <<"n"," ","<","="," ","0"," ","o","r"," ","e"," ","!","="," ","x">>)>>,
                  <<Rep(<<"l","o","w">>, (<<"n">> :> YStr(<<"n"," ","-"," ","1">>)))>>,
                  <<Evt(<<"f","l","i","p">>, <<>>, (<<"f">> :> YStr(<<"n","o","t"," ","f">>)))>>),
      RawRegistry(<<"m","i","x">>, <<StateDecl(<<"n">>, IntVar(-3, -1)), StateDecl(<<"e">>, EnumVar(<<<<"x">>, <<"y">>>>)),
                           StateDecl(<<"m">>, IntVar(2, 4))>>,
                  <<>>, <<>>, <<>>),
      \* table-build errors: an increment past the range, an undefined
      \* identifier, an invariant that is no boolean
      Counter(0, 3, <<Evt(<<"i","n","c">>, <<>>, (<<"n">> :> YStr(<<"n"," ","+"," ","1">>)))>>),
      Counter(0, 3, <<Evt(<<"i","n","c">>, <<"m"," ","<"," ","3">>, (<<"n">> :> YStr(<<"n">>)))>>),
      RawRegistry(<<"c","o","u","n","t","e","r">>, <<StateDecl(<<"n">>, IntVar(0, 3))>>,
                  <<Inv(<<"n","o","n","n","e","g">>, <<"n"," ","+"," ","1">>)>>, <<>>, <<>>),
      \* compile errors: a state space above the ceiling, an enum literal that
      \* names a variable, an expression that does not parse, an assignment to
      \* an unknown variable
      RawRegistry(<<"b","i","g">>, <<StateDecl(<<"n">>, IntVar(0, 999999)), StateDecl(<<"a">>, BoolVar)>>,
                  <<>>, <<>>, <<>>),
      RawRegistry(<<"c","l","a","s","h">>, <<StateDecl(<<"a">>, BoolVar), StateDecl(<<"e">>, EnumVar(<<<<"a">>, <<"x">>>>))>>,
                  <<>>, <<>>, <<>>),
      \* an enum literal listed twice, and one shared by two enums
      RawRegistry(<<"t","w","i","c","e">>, <<StateDecl(<<"e">>, EnumVar(<<<<"x">>, <<"y">>, <<"x">>>>))>>, <<>>, <<>>, <<>>),
      RawRegistry(<<"s","h","a","r","e","d">>, <<StateDecl(<<"e">>, EnumVar(<<<<"x">>, <<"y">>>>)),
                              StateDecl(<<"g">>, EnumVar(<<<<"z">>, <<"y">>>>))>>, <<>>, <<>>, <<>>),
      RawRegistry(<<"a","b">>, StatesAB, <<Inv(<<"w","_","n","e","e","d","s","_","r">>, <<"b"," ","i","m","p","l","i","e","s"," ","a">>)>>,
                  <<Rep(<<"w","_","n","e","e","d","s","_","r">>, (<<"b">> :> YBool(FALSE)))>>, <<>>),
      RawRegistry(<<"a","b">>, StatesAB, <<>>, <<>>,
                  <<Evt(<<"s","e","t","_","c">>, <<>>, (<<"c">> :> YBool(TRUE)))>>),
      \* an unknown identifier and an ill-typed operand in expressions that are
      \* never evaluated: the repair of an invariant that always holds and the
      \* effect of an event whose guard never holds
      RawRegistry(<<"i","d","l","e">>, StatesAB, <<Inv(<<"t","a","u","t">>, <<"a"," ","o","r"," ","n","o","t"," ","a">>)>>,
                  <<Rep(<<"t","a","u","t">>, (<<"b">> :> YStr(<<"z","z"," ","=","="," ","1">>)))>>,
                  <<Evt(<<"n","e","v","e","r">>, <<"a"," ","a","n","d"," ","n","o","t"," ","a">>, (<<"a">> :> YStr(<<"n","o","t"," ","3">>)))>>),
      \* enums used as numbers: an enum ordered, compared with an int and with
      \* another enum's literal, mixed with an int in the branches of an if,
      \* and assigned another enum's literal and an int expression
      RawRegistry(<<"k","i","n","d","s">>,
                  <<StateDecl(<<"e">>, EnumVar(<<<<"x">>, <<"y">>, <<"z">>>>)),
                    StateDecl(<<"g">>, EnumVar(<<<<"p">>, <<"q">>>>)),
                    StateDecl(<<"n">>, IntVar(0, 1))>>,
                  <<Inv(<<"a","n","y">>, <<"e"," ","<"," ","z"," ","o","r"," ","e"," ","=","="," ","2"," ","o","r"," ","g"," ","!","="," ","x">>)>>, <<>>,
                  <<Evt(<<"c","r","o","s","s">>, <<"(","i","f"," ","g"," ","=","="," ","p"," ","t","h","e","n"," ","1"," ","e","l","s","e"," ","e",")"," ","=","="," ","1">>, (<<"g">> :> YStr(<<"y">>))),
                    Evt(<<"c","a","l","c">>, <<>>, (<<"e">> :> YStr(<<"n"," ","+"," ","1">>)))>>),
      \* compensation lists whose entries name another invariant than the one
      \* at their position: two repairs in swapped places, and a single repair
      \* declared for the second invariant
      RawRegistry(<<"a","b">>, StatesAB, <<Inv(<<"n","e","e","d","_","a">>, <<"a">>), Inv(<<"n","e","e","d","_","b">>, <<"b">>)>>,
                  <<Rep(<<"n","e","e","d","_","b">>, (<<"a">> :> YBool(TRUE))),
                    Rep(<<"n","e","e","d","_","a">>, (<<"b">> :> YBool(TRUE)))>>, <<>>),
      RawRegistry(<<"a","b">>, StatesAB, <<Inv(<<"n","e","e","d","_","b">>, <<"b">>), Inv(<<"n","e","e","d","_","a">>, <<"a">>)>>,
                  <<Rep(<<"n","e","e","d","_","a">>, (<<"b">> :> YBool(TRUE)))>>, <<>>),
      \* permissions: writing needs reading, and the repair revokes writing
      RawRegistry(<<"p","e","r","m","i","s","s","i","o","n","s">>,
                  <<StateDecl(<<"c","a","n","_","r","e","a","d">>, BoolVar), StateDecl(<<"c","a","n","_","w","r","i","t","e">>, BoolVar)>>,
                  <<Inv(<<"w","r","i","t","e","_","n","e","e","d","s","_","r","e","a","d">>, <<"n","o","t"," ","c","a","n","_","w","r","i","t","e"," ","o","r"," ","c","a","n","_","r","e","a","d">>)>>,
                  <<Rep(<<"w","r","i","t","e","_","n","e","e","d","s","_","r","e","a","d">>, (<<"c","a","n","_","w","r","i","t","e">> :> YBool(FALSE)))>>,
                  <<Evt(<<"g","r","a","n","t","_","r","e","a","d">>, <<>>, (<<"c","a","n","_","r","e","a","d">> :> YBool(TRUE))),
                    Evt(<<"r","e","v","o","k","e","_","r","e","a","d">>, <<>>, (<<"c","a","n","_","r","e","a","d">> :> YBool(FALSE))),
                    Evt(<<"g","r","a","n","t","_","w","r","i","t","e">>, <<>>, (<<"c","a","n","_","w","r","i","t","e">> :> YBool(TRUE))),
                    Evt(<<"r","e","v","o","k","e","_","w","r","i","t","e">>, <<>>, (<<"c","a","n","_","w","r","i","t","e">> :> YBool(FALSE)))>>),
      \* two flags with no invariant, each set and cleared by its own events
      RawRegistry(<<"f","l","a","g","s">>, StatesAB, <<>>, <<>>,
                  <<EventPoolAB[1], EventPoolAB[2], EventPoolAB[3], EventPoolAB[4]>>),
      \* the built-in functions tabulated by an invariant: a state is valid when
      \* r is the value of the call on l, x and h
      RawRegistry(<<"c","l","a","m","p">>, StatesLXHR, <<Inv(<<"g","r","a","p","h">>, <<"c","l","a","m","p","(","l",","," ","x",","," ","h",")"," ","=","="," ","r">>)>>, <<>>, <<>>),
      RawRegistry(<<"m","i","n">>, StatesLXHR, <<Inv(<<"g","r","a","p","h">>, <<"m","i","n","(","l",","," ","x",")"," ","=","="," ","r">>)>>, <<>>, <<>>),
      RawRegistry(<<"m","a","x">>, StatesLXHR, <<Inv(<<"g","r","a","p","h">>, <<"m","a","x","(","l",","," ","x",")"," ","=","="," ","r">>)>>, <<>>, <<>>),
      \* divisions by a variable: one that is zero at the first state, a
      \* modulus in a guard, and a divisor whose range excludes zero
      RawRegistry(<<"h","a","l","v","e">>, <<StateDecl(<<"n">>, IntVar(0, 2))>>, <<>>, <<>>,
                  <<Evt(<<"d","i","v">>, <<>>, (<<"n">> :> YStr(<<"2"," ","/"," ","n">>)))>>),
      RawRegistry(<<"w","r","a","p">>, <<StateDecl(<<"n">>, IntVar(0, 2))>>, <<>>, <<>>,
                  <<Evt(<<"m","o","d">>, <<"2"," ","%"," ","n"," ","=","="," ","0">>, (<<"n">> :> YInt(0)))>>),
      RawRegistry(<<"s","a","f","e">>, <<StateDecl(<<"n">>, IntVar(1, 2))>>, <<>>, <<>>,
                  <<Evt(<<"d","i","v">>, <<>>, (<<"n">> :> YStr(<<"2"," ","/"," ","n">>)))>>),
      \* blocks with two failing assignments: two unknown targets, and two
      \* booleans assigned an integer
      RawRegistry(<<"a","b">>, StatesAB, <<>>, <<>>,
                  <<Evt(<<"s","e","t","_","c","d">>, <<>>, (<<"c">> :> YBool(TRUE)) @@ (<<"d">> :> YBool(TRUE)))>>),
      RawRegistry(<<"a","b">>, StatesAB, <<>>, <<>>,
                  <<Evt(<<"b","o","t","h">>, <<>>, (<<"a">> :> YInt(1)) @@ (<<"b">> :> YInt(1)))>>),
      \* three grants, two of which need the first: several pairs of events
      \* and several states at which the checks of CC fail
      RawRegistry(<<"g","r","a","n","t","s">>,
                  <<StateDecl(<<"r">>, BoolVar), StateDecl(<<"w">>, BoolVar), StateDecl(<<"x">>, BoolVar)>>,
                  <<Inv(<<"w","_","n","e","e","d","s","_","r">>, <<"n","o","t"," ","w"," ","o","r"," ","r">>), Inv(<<"x","_","n","e","e","d","s","_","r">>, <<"n","o","t"," ","x"," ","o","r"," ","r">>)>>,
                  <<Rep(<<"w","_","n","e","e","d","s","_","r">>, (<<"w">> :> YBool(FALSE))),
                    Rep(<<"x","_","n","e","e","d","s","_","r">>, (<<"x">> :> YBool(FALSE)))>>,
                  <<Evt(<<"r","_","a","s","_","w">>, <<>>, (<<"r">> :> YStr(<<"w">>))),
                    Evt(<<"g","r","a","n","t","_","r">>, <<>>, (<<"r">> :> YBool(TRUE))),
                    Evt(<<"g","r","a","n","t","_","w">>, <<>>, (<<"w">> :> YBool(TRUE))),
                    Evt(<<"g","r","a","n","t","_","x">>, <<>>, (<<"x">> :> YBool(TRUE)))>>),
      \* a variable whose name is the start of another variable's name, read
      \* after the longer name in the same text
      RawRegistry(<<"n","a","m","e","s">>,
                  <<StateDecl(<<"a">>, BoolVar), StateDecl(<<"a","b">>, BoolVar)>>,
                  <<>>, <<>>,
                  <<Evt(<<"f","o","l","d">>, <<>>, (<<"a","b">> :> YStr(<<"a","b"," ","o","r"," ","a">>))),
                    Evt(<<"s","e","t","_","a">>, <<>>, (<<"a">> :> YBool(TRUE)))>>),
      \* a repair that never restores its invariant
      RawRegistry(<<"a","b">>, StatesAB, <<Inv(<<"n","e","e","d","_","a">>, <<"a">>)>>,
                  <<Rep(<<"n","e","e","d","_","a">>, (<<"b">> :> YStr(<<"n","o","t"," ","b">>)))>>,
                  <<>>),
      \* load errors: no name, an enum without values, an empty int range
      RawRegistry(<<>>, StatesAB, <<>>, <<>>, <<>>),
      RawRegistry(<<"e">>, <<StateDecl(<<"e">>, EnumVar(<<>>))>>, <<>>, <<>>, <<>>),
      RawRegistry(<<"n">>, <<StateDecl(<<"n">>, IntVar(2, 1))>>, <<>>, <<>>, <<>>) }

\* one int variable n with one unguarded event assigning rhs to n
OneInt(lo, hi, rhs) ==
    RawRegistry(<<"n">>, <<StateDecl(<<"n">>, IntVar(lo, hi))>>, <<>>, <<>>,
                <<Evt(<<"s","t","e","p">>, <<>>, (<<"n">> :> rhs))>>)

\* one enum variable e over x, y, z
StatesE == <<StateDecl(<<"e">>, EnumVar(<<<<"x">>, <<"y">>, <<"z">>>>))>>

\* assignments that compute a value outside the domain or type of the target
AssignScenarios ==
    { \* an int leaving its range below, above, and staying inside by clamp
      OneInt(-1, 2, YStr(<<"n"," ","-"," ","1">>)),
      OneInt(-1, 2, YStr(<<"n"," ","+"," ","1">>)),
      OneInt(-1, 2, YStr(<<"c","l","a","m","p","(","-","1",","," ","n"," ","+"," ","1",","," ","2",")">>)),
      OneInt(0, 2, YBool(TRUE)),
      \* an enum assigned an integer past its values, and a negative one
      RawRegistry(<<"e">>, StatesE, <<>>, <<>>,
                  <<Evt(<<"n","e","x","t">>, <<>>, (<<"e">> :> YStr(<<"e"," ","+"," ","1">>)))>>),
      RawRegistry(<<"e">>, StatesE, <<>>, <<>>,
                  <<Evt(<<"p","r","e","v">>, <<"e"," ","!","="," ","z">>, (<<"e">> :> YStr(<<"e"," ","-"," ","1">>)))>>),
      RawRegistry(<<"e">>, StatesE, <<>>, <<>>,
                  <<Evt(<<"f","l","a","g">>, <<>>, (<<"e">> :> YBool(TRUE)))>>),
      \* a bool assigned an integer, in an event that is enabled at one state
      RawRegistry(<<"a","b">>, StatesAB, <<>>, <<>>,
                  <<Evt(<<"o","n","e">>, <<"a"," ","a","n","d"," ","n","o","t"," ","b">>, (<<"a">> :> YInt(1)))>>),
      \* repairs that leave the range: at once, and at the second state of a chain
      RawRegistry(<<"n">>, <<StateDecl(<<"n">>, IntVar(0, 3))>>,
                  <<Inv(<<"s","m","a","l","l">>, <<"n"," ","<","="," ","2">>)>>,
                  <<Rep(<<"s","m","a","l","l">>, (<<"n">> :> YStr(<<"n"," ","+"," ","1">>)))>>, <<>>),
      RawRegistry(<<"n">>, <<StateDecl(<<"n">>, IntVar(0, 3))>>,
                  <<Inv(<<"n","o","t","1">>, <<"n"," ","!","="," ","1">>), Inv(<<"n","o","t","2">>, <<"n"," ","!","="," ","2">>)>>,
                  <<Rep(<<"n","o","t","1">>, (<<"n">> :> YStr(<<"n"," ","+"," ","1">>))),
                    Rep(<<"n","o","t","2">>, (<<"n">> :> YStr(<<"n"," ","+"," ","2">>)))>>, <<>>),
      RawRegistry(<<"e">>, StatesE,
                  <<Inv(<<"n","o","t","y">>, <<"e"," ","!","="," ","y">>), Inv(<<"n","o","t","z">>, <<"e"," ","!","="," ","z">>)>>,
                  <<Rep(<<"n","o","t","y">>, (<<"e">> :> YStr(<<"z">>))),
                    Rep(<<"n","o","t","z">>, (<<"e">> :> YStr(<<"e"," ","+"," ","1">>)))>>, <<>>) }

\* events over a, aa: bool and n: int[0,1] that read through a guard, read a
\* variable whose name contains another variable's name, or write nothing
EventPoolRW ==
    << Evt(<<"w","_","a">>, <<>>, (<<"a">> :> YStr(<<"a","a">>))),
       Evt(<<"w","_","a","a">>, <<>>, (<<"a","a">> :> YBool(TRUE))),
       Evt(<<"g","_","n">>, <<"n"," ","=","="," ","0"," ","a","n","d"," ","n","o","t"," ","a","a">>, (<<"n">> :> YInt(1))),
       Evt(<<"i","d","l","e">>, <<"a">>, <<>>),
       Evt(<<"w","_","n">>, <<>>, (<<"n">> :> YStr(<<"m","i","n","(","n"," ","+"," ","1",","," ","1",")">>))) >>

\* every sequence of two distinct events of that pool
FamilyRW ==
    {RawRegistry(<<"r","w">>,
                 <<StateDecl(<<"a">>, BoolVar), StateDecl(<<"a","a">>, BoolVar),
                   StateDecl(<<"n">>, IntVar(0, 1))>>,
                 <<>>, <<>>, <<EventPoolRW[c[1]], EventPoolRW[c[2]]>>) :
        c \in {p \in (1..Len(EventPoolRW)) \X (1..Len(EventPoolRW)) : p[1] # p[2]}}

Inputs == FamilyAB \cup Scenarios \cup AssignScenarios \cup FamilyRW

\* the key names of all effect and repair mappings of a spec file
KeyNames(r) ==
    UNION ({DOMAIN r.Compensation[i].Repair : i \in 1..Len(r.Compensation)}
           \cup {DOMAIN r.Events[i].Effect : i \in 1..Len(r.Events)})

\* every order in which the keys can be visited
Orders(r) ==
    {o \in [1..Cardinality(KeyNames(r)) -> KeyNames(r)] :
        \A i, j \in DOMAIN o : i # j => o[i] # o[j]}

WFCZero == [pass |-> FALSE, maxDepth |-> 0, badState |-> NoBadState, err |-> <<>>]

Init ==
    /\ raw \in Inputs
    /\ order \in Orders(raw)
    /\ pc = "start"
    /\ reg = <<>>
    /\ cr = <<>>
    /\ Valid = <<>>
    /\ NF = <<>>
    /\ Step = <<>>
    /\ repairLog = {}
    /\ wfc = WFCZero
    /\ cc = CCResultZero
    /\ stderr = <<>>
    /\ verdict = "none"
    /\ exitCode = -1

\* os.Exit(1) after a message on stderr
Fail(kind, err) ==
    /\ stderr' = <<kind>> \o err
    /\ exitCode' = 1
    /\ pc' = "exit"

\* registry.LoadFile
LoadFile ==
    /\ pc = "start"
    /\ LET Loaded(r) ==
            IF r.err # <<>>
            THEN /\ Fail("ERROR", r.err)
                 /\ UNCHANGED reg
            ELSE /\ reg' = r.reg
                 /\ pc' = "loaded"
                 /\ UNCHANGED <<stderr, exitCode>>
       IN  Loaded(ParseRegistry(raw))
    /\ UNCHANGED <<raw, order, cr, Valid, NF, Step, repairLog, wfc, cc, verdict>>

\* verify.Compile
DoCompile ==
    /\ pc = "loaded"
    /\ LET Compiled(r) ==
            IF r.err # <<>>
            THEN /\ Fail("COMPILE ERROR", r.err)
                 /\ UNCHANGED cr
            ELSE /\ cr' = r.cr
                 /\ pc' = "compiled"
                 /\ UNCHANGED <<stderr, exitCode>>
       IN  Compiled(Compile(reg, order))
    /\ UNCHANGED <<raw, order, reg, Valid, NF, Step, repairLog, wfc, cc, verdict>>

\* BuildTables, step 1: Valid
BuildValid ==
    /\ pc = "compiled"
    /\ LET Built(r) ==
            /\ Valid' = r.tab
            /\ NF' = [sid \in StateIDs(cr) |-> 0]
            /\ IF r.err # <<>>
               THEN Fail("TABLE BUILD ERROR", r.err)
               ELSE /\ pc' = "valid"
                    /\ UNCHANGED <<stderr, exitCode>>
       IN  Built(BuildValidTable(cr))
    /\ UNCHANGED <<raw, order, reg, cr, Step, repairLog, wfc, cc, verdict>>

\* BuildTables, step 2: NF
BuildNF ==
    /\ pc = "valid"
    /\ LET Built(r) ==
            /\ NF' = r.tab
            /\ repairLog' = r.log
            /\ IF r.err # <<>>
               THEN Fail("TABLE BUILD ERROR", r.err)
               ELSE /\ pc' = "nf"
                    /\ UNCHANGED <<stderr, exitCode>>
       IN  Built(BuildNFTable(cr, Valid, order))
    /\ UNCHANGED <<raw, order, reg, cr, Valid, Step, wfc, cc, verdict>>

\* BuildTables, step 3: Step
BuildStep ==
    /\ pc = "nf"
    /\ LET Built(r) ==
            /\ Step' = r.tab
            /\ IF r.err # <<>>
               THEN Fail("TABLE BUILD ERROR", r.err)
               ELSE /\ pc' = "built"
                    /\ UNCHANGED <<stderr, exitCode>>
       IN  Built(BuildStepTable(cr, NF, order))
    /\ UNCHANGED <<raw, order, reg, cr, Valid, NF, repairLog, wfc, cc, verdict>>

\* cr.CheckWFC() and the WFC section of the report
DoCheckWFC ==
    /\ pc = "built"
    /\ wfc' = CheckWFC(cr, Valid, NF, order)
    /\ IF wfc'.err # <<>>
       THEN Fail("ERROR", wfc'.err)
       ELSE /\ pc' = "wfc"
            /\ UNCHANGED <<stderr, exitCode>>
    /\ UNCHANGED <<raw, order, reg, cr, Valid, NF, Step, repairLog, cc, verdict>>

\* CheckCC releasing the Step table once it has been compared
DoCheckCCReleasingStep ==
    /\ pc = "wfc"
    /\ cc' = CheckCC(cr, Step, NF)
    /\ pc' = "cc"
    /\ Step' = <<>>
    /\ UNCHANGED <<raw, order, reg, cr, Valid, NF, repairLog, wfc,
                   stderr, verdict, exitCode>>

\* cr.CheckCC() and the CC section of the report
DoCheckCC ==
    /\ pc = "wfc"
    /\ cc' = CheckCC(cr, Step, NF)
    /\ pc' = "cc"
    /\ UNCHANGED <<raw, order, reg, cr, Valid, NF, Step, repairLog, wfc,
                   stderr, verdict, exitCode>>

\* the summary and the exit status
Summary ==
    /\ pc = "cc"
    /\ verdict' = IF AllPass(wfc.pass, cc) THEN "GUARANTEED" ELSE "NOT GUARANTEED"
    /\ exitCode' = IF AllPass(wfc.pass, cc) THEN 0 ELSE 1
    /\ pc' = "exit"
    /\ UNCHANGED <<raw, order, reg, cr, Valid, NF, Step, repairLog, wfc, cc, stderr>>

Next ==
    \/ LoadFile
    \/ DoCompile
    \/ BuildValid
    \/ BuildNF
    \/ BuildStep
    \/ DoCheckWFC
    \/ DoCheckCC
    \/ Summary

Spec == Init /\ [][Next]_vars

(* ------------------------------------------------------------------ *)
(* CheckWFC on tables supplied by a caller                             *)
(* ------------------------------------------------------------------ *)

\* CheckWFC is an exported method that reads the exported fields Valid and NF:
\* here it runs on a compiled registry with any pair of tables of the right
\* shape in those fields
InputsWFC ==
    {RawRegistry(<<"a","b">>, StatesAB, InvPoolAB[v].Invariants, InvPoolAB[v].Compensation, <<>>) :
        v \in {2, 3}}

InitWFC ==
    /\ raw \in InputsWFC
    /\ order \in Orders(raw)
    /\ pc = "built"
    /\ reg = ParseRegistry(raw).reg
    /\ cr = Compile(reg, order).cr
    /\ Valid \in [StateIDs(cr) -> BOOLEAN]
    /\ NF \in [StateIDs(cr) -> StateIDs(cr)]
    /\ Step = <<>>
    /\ repairLog = {}
    /\ wfc = WFCZero
    /\ cc = CCResultZero
    /\ stderr = <<>>
    /\ verdict = "none"
    /\ exitCode = -1

NextWFC == DoCheckWFC

SpecWFC == InitWFC /\ [][NextWFC]_vars

(* ------------------------------------------------------------------ *)
(* the same run over spec files that vary the schema only              *)
(* ------------------------------------------------------------------ *)

MaxVars == 3

\* the variable declarations a states mapping is drawn from; the last one
\* has an empty range and is rejected by parseVarDef, and a literal declared
\* by two enums is rejected by Compile
VarPool ==
    <<BoolVar,
      EnumVar(<<<<"x">>>>),
      EnumVar(<<<<"p">>, <<"q">>, <<"r">>>>),
      IntVar(-2, 1),
      IntVar(-3, -1),
      IntVar(2, 4),
      IntVar(1, 0)>>

\* spec files with 1..MaxVars variables v1, v2, ... and nothing else
InputsCodec ==
    {RawRegistry(<<"c">>,
                 [i \in DOMAIN pick |-> StateDecl(<<"v">> \o Itoa(i), VarPool[pick[i]])],
                 <<>>, <<>>, <<>>) :
        pick \in UNION {[1..n -> DOMAIN VarPool] : n \in 1..MaxVars}}

InitCodec ==
    /\ raw \in InputsCodec
    /\ order \in Orders(raw)
    /\ pc = "start"
    /\ reg = <<>>
    /\ cr = <<>>
    /\ Valid = <<>>
    /\ NF = <<>>
    /\ Step = <<>>
    /\ repairLog = {}
    /\ wfc = WFCZero
    /\ cc = CCResultZero
    /\ stderr = <<>>
    /\ verdict = "none"
    /\ exitCode = -1

SpecCodec == InitCodec /\ [][Next]_vars

(* ------------------------------------------------------------------ *)
(* computeNF called on one start state of a registry with long chains  *)
(* ------------------------------------------------------------------ *)

\* n: int[0, hi] must be 0 and is repaired by counting down
Countdown(hi) ==
    RawRegistry(<<"d","o","w","n">>, <<StateDecl(<<"n">>, IntVar(0, hi))>>,
                <<Inv(<<"z","e","r","o">>, <<"n"," ","=","="," ","0">>)>>,
                <<Rep(<<"z","e","r","o">>, (<<"n">> :> YStr(<<"n"," ","-"," ","1">>)))>>, <<>>)

\* chains of up to MaxRepairIter + 1 repairs, and a repair that never ends
InputsNF ==
    { Countdown(MaxRepairIter + 1),
      RawRegistry(<<"a","b">>, StatesAB, <<Inv(<<"n","e","e","d","_","a">>, <<"a">>)>>,
                  <<Rep(<<"n","e","e","d","_","a">>, (<<"b">> :> YStr(<<"n","o","t"," ","b">>)))>>, <<>>) }

InitNF ==
    /\ raw \in InputsNF
    /\ order \in Orders(raw)
    /\ pc = "valid"
    /\ reg = ParseRegistry(raw).reg
    /\ cr = Compile(reg, order).cr
    /\ Valid = BuildValidTable(cr).tab
    /\ NF = <<>>
    /\ Step = <<>>
    /\ repairLog = {}
    /\ wfc = WFCZero
    /\ cc = CCResultZero
    /\ stderr = <<>>
    /\ verdict = "none"
    /\ exitCode = -1

\* one call cr.computeNF(sid): the result in NF, the error in stderr
ComputeNFAt(sid) ==
    /\ pc = "valid"
    /\ LET Returned(r) ==
            /\ NF' = (sid :> r.nf)
            /\ repairLog' = r.steps
            /\ stderr' = r.err
       IN  Returned(computeNF(cr, Valid, order, sid))
    /\ pc' = "nf1"
    /\ UNCHANGED <<raw, order, reg, cr, Valid, Step, wfc, cc, verdict, exitCode>>

NearEnds == 55

\* the start states of the calls: the lowest and the highest state IDs
StartIDs ==
    {sid \in StateIDs(cr) : sid < NearEnds \/ sid >= cr.Schema.TotalLen - NearEnds}

NextNF == \E sid \in StartIDs : ComputeNFAt(sid)

SpecNF == InitNF /\ [][NextNF]_vars

(* ------------------------------------------------------------------ *)
(* LoadFile and Compile on registries around the state-space ceiling   *)
(* ------------------------------------------------------------------ *)

\* a registry of int variables v1, v2, ... with the given domain sizes
IntSizes(sizes) ==
    RawRegistry(<<"b","i","g">>,
                [i \in DOMAIN sizes |-> StateDecl(<<"v">> \o Itoa(i), IntVar(0, sizes[i] - 1))],
                <<>>, <<>>, <<>>)

\* size lists whose product lies around 10^6 and 2^20, and three whose
\* product is 2^64, 2^63 and 2^64 + 2^48
CeilingSizes ==
    {<<a, b>> : a \in {999, 1000, 1001, 1023, 1024, 1025}, b \in {1000, 1001, 1023, 1024, 1025}}
        \cup {<<1000000>>, <<1000001>>, <<1048576>>, <<1048577>>}
        \cup {<<65536, 65536, 65536, 65536>>, <<2097152, 2097152, 2097152>>,
              <<65536, 65536, 65536, 65537>>}

InputsCeiling == {IntSizes(sizes) : sizes \in CeilingSizes}

InitCeiling ==
    /\ raw \in InputsCeiling
    /\ order \in Orders(raw)
    /\ pc = "start"
    /\ reg = <<>>
    /\ cr = <<>>
    /\ Valid = <<>>
    /\ NF = <<>>
    /\ Step = <<>>
    /\ repairLog = {}
    /\ wfc = WFCZero
    /\ cc = CCResultZero
    /\ stderr = <<>>
    /\ verdict = "none"
    /\ exitCode = -1

NextCeiling ==
    \/ LoadFile
    \/ DoCompile

SpecCeiling == InitCeiling /\ [][NextCeiling]_vars

(* ------------------------------------------------------------------ *)
(* Properties                                                          *)
(* ------------------------------------------------------------------ *)

EventIDs == 1..Len(cr.Reg.Events)

\* both arrival orders of e1 and e2 are enabled from s
CoEnabled(e1, e2, s) ==
    /\ Step[e1][s] # -1
    /\ Step[e2][s] # -1
    /\ Step[e2][Step[e1][s]] # -1
    /\ Step[e1][Step[e2][s]] # -1

\* both arrival orders of e1 and e2 from s end in the same state
SameEnd(e1, e2, s) == Step[e2][Step[e1][s]] = Step[e1][Step[e2][s]]

\* C1 as stated: after the verdict "convergence guaranteed", every two distinct
\* events that are enabled in both orders from a state end in the same state
\* in both orders, the pairs classified as dependent included.
C1_AllPairsCommute ==
    verdict = "GUARANTEED" =>
        \A e1, e2 \in EventIDs : \A s \in StateIDs(cr) :
            e1 # e2 /\ CoEnabled(e1, e2, s) => SameEnd(e1, e2, s)

\* C1 (amended): after the verdict "convergence guaranteed", every two distinct
\* events that the independence analysis classifies as independent and that
\* are enabled in both orders from a state end in the same state in both
\* orders; dependent pairs are skipped and need not commute.
C1_IndependentPairsCommute ==
    verdict = "GUARANTEED" =>
        \A e1, e2 \in EventIDs : \A s \in StateIDs(cr) :
            e1 # e2 /\ isIndependent(cr, e1, e2) /\ CoEnabled(e1, e2, s)
                => SameEnd(e1, e2, s)

\* a guaranteed verdict for a registry with an invalid state and an
\* independent pair that is enabled in both orders somewhere
C1_Witness ==
    /\ verdict = "GUARANTEED"
    /\ \E s \in StateIDs(cr) : ~Valid[s]
    /\ \E e1, e2 \in EventIDs : \E s \in StateIDs(cr) :
          e1 # e2 /\ isIndependent(cr, e1, e2) /\ CoEnabled(e1, e2, s)

\* C2: the verdict is "convergence guaranteed" exactly when the exit status is
\* 0, which is exactly when the run ended with WFC, CC1 and CC2 all passed; a
\* run that ends otherwise (load, compile, table-build, WFC or CC failure)
\* exits with status 1.
C2_VerdictIffAllPass ==
    /\ (verdict = "GUARANTEED") <=> (exitCode = 0)
    /\ (exitCode = 0) <=> (pc = "exit" /\ wfc.pass /\ cc.CC1Pass /\ cc.CC2Pass)
    /\ pc = "exit" => exitCode \in {0, 1}
    /\ pc # "exit" => exitCode = -1 /\ verdict = "none"
    /\ stderr # <<>> => exitCode = 1

\* a run that ended with status 0 for a registry with invariants, an invalid
\* state and two events
C2_Witness ==
    /\ pc = "exit"
    /\ exitCode = 0
    /\ \E s \in StateIDs(cr) : ~Valid[s]
    /\ Len(cr.Reg.Events) = 2

\* the normal form of s is no valid state
NFNotValid(s) == ~Valid[NF[s]]

\* s is valid and its normal form is another state
NotFixpoint(s) == Valid[s] /\ NF[s] # s

\* the states that violate one of the two WFC conditions
WFCViolations == {s \in StateIDs(cr) : NFNotValid(s) \/ NotFixpoint(s)}

\* C3: CheckWFC passes exactly when every state's normal form is valid and
\* every valid state is its own normal form; when it fails, it reports the
\* least violating state, that state's normal form, and which condition
\* failed ("not valid" when the normal form is invalid, else "not a fixpoint").
C3_WFCIffConditions ==
    pc = "wfc" =>
        /\ wfc.pass <=> WFCViolations = {}
        /\ ~wfc.pass =>
              wfc.badState =
                  [state |-> fmtState(cr, Decode(cr.Schema, Least(WFCViolations))),
                   nf |-> fmtState(cr, Decode(cr.Schema, NF[Least(WFCViolations)])),
                   why |-> IF NFNotValid(Least(WFCViolations))
                           THEN "which is not valid" ELSE "(not a fixpoint)"]

\* CheckWFC has failed on a state that is valid but no fixpoint, after smaller
\* states met both conditions
C3_Witness ==
    /\ pc = "wfc"
    /\ ~wfc.pass
    /\ wfc.badState.why = "(not a fixpoint)"
    /\ Least(WFCViolations) > 0

\* the tables of BuildTables are complete
NFBuilt == pc \in {"nf", "built", "wfc", "cc"} \/ (pc = "exit" /\ verdict # "none")

TablesBuilt == pc \in {"built", "wfc", "cc"} \/ (pc = "exit" /\ verdict # "none")

\* CheckCC has returned
CCDone == pc = "cc" \/ (pc = "exit" /\ verdict # "none")

\* C4: CC1 passes exactly when every pair of distinct independent events ends
\* in the same state in both orders at every state where all four steps are
\* enabled; a failure names an independent pair and a state where both orders
\* are enabled and differ, so disabled steps and dependent pairs never fail.
C4_CC1IffIndependentCommute ==
    CCDone =>
        /\ cc.CC1Pass <=>
              \A e1, e2 \in EventIDs : \A s \in StateIDs(cr) :
                  e1 # e2 /\ isIndependent(cr, e1, e2) /\ CoEnabled(e1, e2, s)
                      => SameEnd(e1, e2, s)
        /\ ~cc.CC1Pass =>
              \E e1, e2 \in EventIDs : \E s \in StateIDs(cr) :
                  /\ e1 < e2
                  /\ isIndependent(cr, e1, e2)
                  /\ CoEnabled(e1, e2, s)
                  /\ ~SameEnd(e1, e2, s)
                  /\ cc.CC1FailEvent1 = cr.Reg.Events[e1].Name
                  /\ cc.CC1FailEvent2 = cr.Reg.Events[e2].Name
                  /\ cc.CC1FailState = fmtState(cr, Decode(cr.Schema, s))

\* CC1 has passed for an independent pair although, at some state where both
\* events are enabled, one order ends in a state and the other is disabled
C4_Witness ==
    /\ CCDone
    /\ cc.CC1Pass
    /\ \E e1, e2 \in EventIDs : \E s \in StateIDs(cr) :
          /\ e1 # e2
          /\ isIndependent(cr, e1, e2)
          /\ Step[e1][s] # -1
          /\ Step[e2][s] # -1
          /\ Step[e2][Step[e1][s]] # -1
          /\ Step[e1][Step[e2][s]] = -1

\* C5: CC2 passes exactly when, for every event e and state s with e enabled
\* at s and at NF[s], Step[e][s] = Step[e][NF[s]], over all events whether or
\* not they belong to an independent pair; and CCPass = CC1Pass and CC2Pass.
C5_CC2IffStepAgreesWithNF ==
    CCDone =>
        /\ cc.CC2Pass <=>
              \A e \in EventIDs : \A s \in StateIDs(cr) :
                  Step[e][s] # -1 /\ Step[e][NF[s]] # -1 => Step[e][s] = Step[e][NF[s]]
        /\ cc.CCPass <=> (cc.CC1Pass /\ cc.CC2Pass)

\* CC2 has failed for a registry none of whose pairs is independent
C5_Witness ==
    /\ CCDone
    /\ ~cc.CC2Pass
    /\ cc.CC1Pass
    /\ cc.PairsChecked = 0
    /\ cc.DependentSkipped > 0

\* C6: once the tables are built, Step[e][s] is -1 exactly when e's guard is
\* false at s, an event without a guard is enabled in every state, and an
\* enabled event's cell is the normal form of its effect applied to s itself.
C6_StepIsGuardedEffectThenNF ==
    TablesBuilt =>
        \A e \in EventIDs : \A s \in StateIDs(cr) :
            /\ Step[e][s] = -1 <=> ~evalGuard(cr, e, Decode(cr.Schema, s)).b
            /\ cr.Reg.Events[e].Guard = <<>> => Step[e][s] # -1
            /\ Step[e][s] # -1 =>
                  Step[e][s] = NF[Encode(cr.Schema,
                                         applyEvent(cr, e, Decode(cr.Schema, s), order).post)]

\* the tables are built, some event is disabled somewhere, and at some invalid
\* state an event's cell differs from its cell at the state's normal form
C6_Witness ==
    /\ TablesBuilt
    /\ \E e \in EventIDs : \E s \in StateIDs(cr) : Step[e][s] = -1
    /\ \E e \in EventIDs : \E s \in StateIDs(cr) :
          /\ ~Valid[s]
          /\ Step[e][s] # -1
          /\ Step[e][NF[s]] # -1
          /\ Step[e][s] # Step[e][NF[s]]

\* C7: once NF is built, every normal form is a valid state and every valid
\* state is its own normal form; with no invariants every state is valid and
\* NF is the identity.
C7_NFValidAndFixpoint ==
    NFBuilt =>
        /\ \A s \in StateIDs(cr) : Valid[NF[s]] /\ (Valid[s] => NF[s] = s)
        /\ Len(cr.InvExprs) = 0 => \A s \in StateIDs(cr) : Valid[s] /\ NF[s] = s

\* NF is built for a registry where some state needs more than one repair
C7_Witness ==
    /\ NFBuilt
    /\ \E r \in repairLog : ~Valid[r.to]

\* the values a variable can take in a state vector
VarDomain(vd) == IF vd.Type = TypeInt THEN vd.Min..vd.Max ELSE 0..(vd.Size - 1)

\* every state vector whose components lie in their variable's domain
StateVectors(s) ==
    {st \in [1..Len(s.Vars) -> UNION {VarDomain(s.Vars[i]) : i \in 1..Len(s.Vars)}] :
        \A i \in 1..Len(s.Vars) : st[i] \in VarDomain(s.Vars[i])}

RECURSIVE LaterSizes(_, _)
\* the product of the sizes of the variables after position i
LaterSizes(vds, i) ==
    IF i >= Len(vds) THEN 1 ELSE vds[i + 1].Size * LaterSizes(vds, i + 1)

RECURSIVE StrideSum(_, _, _)
\* the sum over positions i.. of the 0-based component times LaterSizes
StrideSum(vds, st, i) ==
    IF i > Len(vds) THEN 0
    ELSE (st[i] - (IF vds[i].Type = TypeInt THEN vds[i].Min ELSE 0)) * LaterSizes(vds, i)
         + StrideSum(vds, st, i + 1)

\* C8: for the schema of every compiled registry, Decode maps each ID below
\* TotalLen to an in-domain vector that Encode maps back to the ID, Encode
\* maps each in-domain vector to an ID below TotalLen that Decode maps back to
\* the vector, and Encode(v) is the sum of the 0-based components times the
\* product of the sizes of all later variables.
C8_CodecRoundTrip ==
    pc = "compiled" =>
        /\ \A id \in StateIDs(cr) :
              /\ Decode(cr.Schema, id) \in StateVectors(cr.Schema)
              /\ Encode(cr.Schema, Decode(cr.Schema, id)) = id
        /\ \A v \in StateVectors(cr.Schema) :
              /\ Encode(cr.Schema, v) \in StateIDs(cr)
              /\ Decode(cr.Schema, Encode(cr.Schema, v)) = v
              /\ Encode(cr.Schema, v) = StrideSum(cr.Schema.Vars, v, 1)
        /\ Cardinality(StateVectors(cr.Schema)) = cr.Schema.TotalLen

\* a schema of a bool, an int with a negative lower bound and an enum of
\* several values, in some order, has been compiled
C8_Witness ==
    /\ pc = "compiled"
    /\ Len(cr.Schema.Vars) = 3
    /\ cr.Schema.TotalLen > 8
    /\ \E i, j, k \in 1..3 :
          /\ cr.Schema.Vars[i].Type = TypeBool
          /\ cr.Schema.Vars[j].Type = TypeInt /\ cr.Schema.Vars[j].Min < 0
          /\ cr.Schema.Vars[k].Type = TypeEnum /\ cr.Schema.Vars[k].Size = 3

\* the invariants that evaluate to false at state s
ViolatedAt(s) ==
    {i \in 1..Len(cr.InvExprs) :
        ~EvalBool(cr.InvExprs[i], makeEnv(cr, Decode(cr.Schema, s))).b}

\* C9: every repair applied during computeNF is applied at an invalid state,
\* is the repair of the lowest-index invariant false at that state, and leads
\* to the state that this one repair alone produces; an invalid state has one
\* repair only, and normalisation goes on from the repaired state, so that
\* NF of the state is the repaired state if that is valid and its NF if not.
C9_FirstMatchWithRescan ==
    /\ \A r \in repairLog :
          /\ ~Valid[r.at]
          /\ ViolatedAt(r.at) # {}
          /\ r.ri = Least(ViolatedAt(r.at))
          /\ r.to = Encode(cr.Schema,
                           applyRepair(cr, r.ri, Decode(cr.Schema, r.at), order).post)
          /\ \A r2 \in repairLog : r2.at = r.at => r2 = r
    /\ NFBuilt =>
          /\ \A s \in StateIDs(cr) : ~Valid[s] => \E r \in repairLog : r.at = s
          /\ \A r \in repairLog :
                NF[r.at] = IF Valid[r.to] THEN r.to ELSE NF[r.to]

\* NF is built and a repair was applied at a state where a later invariant
\* was violated too, whose own repair would have led elsewhere
C9_Witness ==
    /\ NFBuilt
    /\ \E r \in repairLog : \E j \in ViolatedAt(r.at) :
          /\ j > r.ri
          /\ ~Valid[r.to]
          /\ Encode(cr.Schema,
                    applyRepair(cr, j, Decode(cr.Schema, r.at), order).post) # r.to

\* the assignment blocks of the compiled registry, keyed by variable index
Blocks ==
    {cr.EvtExprs[e] : e \in 1..Len(cr.EvtExprs)}
        \cup {cr.RepExprs[i] : i \in 1..Len(cr.RepExprs)}

\* every order in which the keys of a block can be processed
KeyOrders(blk) ==
    {o \in [1..Cardinality(DOMAIN blk) -> DOMAIN blk] :
        \A i, j \in DOMAIN o : i # j => o[i] # o[j]}

\* a value as a state vector stores it
Stored(val) == IF val.IsBool THEN (IF val.Bool THEN 1 ELSE 0) ELSE val.Int

\* C10: for every event or repair block and every pre-state, all processing
\* orders of the block's assignments succeed or fail alike and give the same
\* post-state, in which every target holds the value of its right-hand side
\* in the pre-state and every other variable keeps its pre-state value.
C10_SimultaneousAssignment ==
    pc = "compiled" =>
        \A blk \in Blocks : \A s \in StateIDs(cr) : \A k1, k2 \in KeyOrders(blk) :
            /\ (applyAssignments(cr, blk, Decode(cr.Schema, s), k1).err = <<>>)
                  <=> (applyAssignments(cr, blk, Decode(cr.Schema, s), k2).err = <<>>)
            /\ applyAssignments(cr, blk, Decode(cr.Schema, s), k1).post
                  = applyAssignments(cr, blk, Decode(cr.Schema, s), k2).post
            /\ applyAssignments(cr, blk, Decode(cr.Schema, s), k1).err = <<>> =>
                  \A i \in 1..Len(cr.Schema.Vars) :
                      applyAssignments(cr, blk, Decode(cr.Schema, s), k1).post[i]
                        = IF i \in DOMAIN blk
                          THEN Stored(Eval(blk[i], makeEnv(cr, Decode(cr.Schema, s))))
                          ELSE Decode(cr.Schema, s)[i]

\* a block of two assignments has been compiled that exchanges the values of
\* two variables at a state where they differ
C10_Witness ==
    /\ pc = "compiled"
    /\ \E blk \in Blocks : \E s \in StateIDs(cr) : \E k \in KeyOrders(blk) :
          /\ DOMAIN blk = {1, 2}
          /\ Decode(cr.Schema, s)[1] # Decode(cr.Schema, s)[2]
          /\ applyAssignments(cr, blk, Decode(cr.Schema, s), k).err = <<>>
          /\ applyAssignments(cr, blk, Decode(cr.Schema, s), k).post[1]
                = Decode(cr.Schema, s)[2]
          /\ applyAssignments(cr, blk, Decode(cr.Schema, s), k).post[2]
                = Decode(cr.Schema, s)[1]

\* a value of the type and within the domain of variable vd
InDomain(vd, val) ==
    CASE vd.Type = TypeBool -> val.IsBool
      [] vd.Type = TypeEnum -> val.IsInt /\ val.Int >= 0 /\ val.Int < vd.Size
      [] vd.Type = TypeInt -> val.IsInt /\ val.Int >= vd.Min /\ val.Int <= vd.Max

\* the targets of a block whose right-hand side has, at state s, a value
\* outside the target's domain
BadTargets(blk, s) ==
    {i \in DOMAIN blk :
        /\ Eval(blk[i], makeEnv(cr, Decode(cr.Schema, s))).err = <<>>
        /\ ~InDomain(cr.Schema.Vars[i], Eval(blk[i], makeEnv(cr, Decode(cr.Schema, s))))}

\* an event enabled at a state where its effect computes such a value
EventOffences ==
    {p \in EventIDs \X StateIDs(cr) :
        /\ evalGuard(cr, p[1], Decode(cr.Schema, p[2])).b
        /\ BadTargets(cr.EvtExprs[p[1]], p[2]) # {}}

\* an invalid state where the repair that fires computes such a value
RepairOffences ==
    {s \in StateIDs(cr) :
        /\ ViolatedAt(s) # {}
        /\ Least(ViolatedAt(s)) <= Len(cr.RepExprs)
        /\ BadTargets(cr.RepExprs[Least(ViolatedAt(s))], s) # {}}

RECURSIVE NeverValidWithin(_, _)
\* n repairs in a row from state s never meet a valid state
NeverValidWithin(s, n) ==
    /\ ViolatedAt(s) # {}
    /\ \/ n = 0
       \/ /\ RepairIteration(cr, s, order).err = <<>>
          /\ RepairIteration(cr, s, order).repaired
          /\ NeverValidWithin(RepairIteration(cr, s, order).next, n - 1)

\* the states whose repairs go round among invalid states for ever: with
\* TotalLen states, TotalLen repairs without a valid state repeat a state
Unnormalizable == {s \in StateIDs(cr) : NeverValidWithin(s, cr.Schema.TotalLen)}

\* C12: a run of a compiled registry in which compensation from some state
\* never reaches a valid state ends with a report: WFC failed with the least
\* such state as counterexample, CheckCC has run, the verdict is NOT
\* GUARANTEED with status 1, and nothing was written as an error.
C12_CapExhaustionIsWFCFailure ==
    (pc = "exit" /\ cr # <<>> /\ Unnormalizable # {}) =>
        /\ verdict = "NOT GUARANTEED"
        /\ exitCode = 1
        /\ stderr = <<>>
        /\ ~wfc.pass
        /\ wfc.badState # NoBadState
        /\ wfc.badState.state = fmtState(cr, Decode(cr.Schema, Least(Unnormalizable)))

\* the state after the repair that fires at s; a valid state stays
OneRepair(s) == IF Valid[s] THEN s ELSE RepairIteration(cr, s, order).next

RECURSIVE AfterRepairs(_, _)
\* the state n repairs after s, or the valid state met on the way
AfterRepairs(s, n) ==
    IF Valid[s] \/ n = 0 THEN s
    ELSE IF n = 1 THEN OneRepair(s)
    ELSE AfterRepairs(AfterRepairs(s, n \div 2), n - (n \div 2))

\* the state a single call of computeNF was started on
Started == CHOOSE s \in DOMAIN NF : TRUE

IdentTokens(txt) ==
    {Lex(txt).toks[i].Val :
        i \in {j \in 1..Len(Lex(txt).toks) : Lex(txt).toks[j].Type = "TokIdent"}}

\* the variables on the left-hand sides of event e
WrittenBy(e) ==
    {i \in 1..Len(cr.Schema.Vars) :
        cr.Schema.Vars[i].Name \in DOMAIN cr.Reg.Events[e].Assignments}

\* the variables named in the guard or in a right-hand side of event e
ReadBy(e) ==
    {i \in 1..Len(cr.Schema.Vars) :
        cr.Schema.Vars[i].Name \in
            IdentTokens(cr.Reg.Events[e].Guard)
                \cup UNION {IdentTokens(cr.Reg.Events[e].Assignments[k]) :
                               k \in DOMAIN cr.Reg.Events[e].Assignments}}

\* C14: two distinct events are independent exactly when neither writes a
\* variable the other reads or writes; the predicate is symmetric; on an event
\* and itself it is false exactly when the event writes a variable; and when
\* CC1 passes, the pairs checked and skipped are the independent and dependent
\* pairs e1 < e2, so no event is paired with itself.
C14_IndependenceIsDisjointness ==
    CCDone =>
        /\ \A e1, e2 \in EventIDs :
              /\ e1 # e2 =>
                    (isIndependent(cr, e1, e2) <=>
                        /\ WrittenBy(e1) \cap (WrittenBy(e2) \cup ReadBy(e2)) = {}
                        /\ WrittenBy(e2) \cap (WrittenBy(e1) \cup ReadBy(e1)) = {})
              /\ isIndependent(cr, e1, e2) <=> isIndependent(cr, e2, e1)
        /\ \A e \in EventIDs : ~isIndependent(cr, e, e) <=> WrittenBy(e) # {}
        /\ cc.CC1Pass =>
              /\ cc.PairsChecked =
                    Cardinality({p \in EventIDs \X EventIDs :
                                    p[1] < p[2] /\ isIndependent(cr, p[1], p[2])})
              /\ cc.DependentSkipped =
                    Cardinality({p \in EventIDs \X EventIDs :
                                    p[1] < p[2] /\ ~isIndependent(cr, p[1], p[2])})

\* CheckCC has skipped a pair that is dependent only because the second event
\* writes a variable the first reads
C14_Witness ==
    /\ CCDone
    /\ cc.DependentSkipped = 1
    /\ Len(cr.Reg.Events) = 2
    /\ WrittenBy(1) \cap (WrittenBy(2) \cup ReadBy(2)) = {}
    /\ WrittenBy(2) \cap WrittenBy(1) = {}
    /\ WrittenBy(2) \cap ReadBy(1) # {}

RECURSIVE ProductExceeds(_, _, _, _)
\* the product of acc <= c and the sizes from position i on is above c; all
\* sizes are at least 1
ProductExceeds(sizes, i, acc, c) ==
    IF i > Len(sizes) THEN FALSE
    ELSE IF sizes[i] > c \div acc THEN TRUE
    ELSE ProductExceeds(sizes, i + 1, acc * sizes[i], c)

\* the domain sizes of the loaded registry's variables
DomainSizes == [i \in 1..Len(reg.Vars) |-> reg.Vars[i].Size]

\* C15: Compile rejects a loaded registry as too large exactly when the
\* product of its variables' domain sizes, taken as a natural number, is
\* above 1,048,576.
C15_CeilingIsTwoToTwenty ==
    (reg # <<>> /\ pc \in {"compiled", "exit"}) =>
        ((pc = "exit" /\ stderr = <<"COMPILE ERROR", "state space too large">>)
            <=> ProductExceeds(DomainSizes, 1, 1, 1048576))


\* what the identifier id can stand for among the variables vds: a variable,
\* or the k-th value of the enum variable i
Resolutions(vds, id) ==
    {<<"variable", i, 0>> : i \in {j \in 1..Len(vds) : vds[j].Name = id}}
    \cup UNION {{<<"literal", i, k>> :
                    k \in {l \in 1..Len(vds[i].Values) : vds[i].Values[l] = id}} :
                i \in {j \in 1..Len(vds) : vds[j].Type = TypeEnum}}

\* the variable names and enum literals of vds
Identifiers(vds) ==
    {vds[i].Name : i \in 1..Len(vds)}
    \cup UNION {Range(vds[i].Values) : i \in 1..Len(vds)}

\* an enum literal names a variable, or occurs at two places of the value lists
LiteralCollision(vds) ==
    \E id \in Identifiers(vds) :
        /\ \E r \in Resolutions(vds, id) : r[1] = "literal"
        /\ Cardinality(Resolutions(vds, id)) > 1

\* C16: once Compile has run on a loaded registry, a registry in which an enum
\* literal equals a variable name or occurs twice in the value lists (of two
\* enums or of one) has failed to compile, and in a compiled registry every
\* identifier stands for at most one thing, an enum literal being mapped to
\* its index in the one list that holds it.
C16_LiteralCollisionRejected ==
    (reg # <<>> /\ pc # "loaded") =>
        /\ LiteralCollision(reg.Vars) =>
              (cr = <<>> /\ pc = "exit" /\ stderr[1] = "COMPILE ERROR")
        /\ cr # <<>> =>
              \A id \in Identifiers(reg.Vars) :
                  /\ Cardinality(Resolutions(reg.Vars, id)) = 1
                  /\ \A r \in Resolutions(reg.Vars, id) :
                        r[1] = "literal" =>
                            (id \in DOMAIN cr.EnumLiterals
                                /\ cr.EnumLiterals[id] = r[3] - 1)

\* Compile has rejected a registry whose only fault is a literal listed twice
\* in one enum
C16_Witness ==
    /\ reg # <<>>
    /\ pc = "exit"
    /\ stderr = <<"COMPILE ERROR", "enum literal conflict">>
    /\ Len(reg.Vars) = 1
    /\ LiteralCollision(reg.Vars)


RECURSIVE TypeOf(_, _)
\* the static type of an expression over the variables vds by the DSL's type
\* rules: <<"bool">>, <<"int">>, <<"enum", i>> for the enum variable i, or
\* <<"error">> for an unknown identifier or an operand of the wrong type
TypeOf(node, vds) ==
    LET t1 == TypeOf(node.Children[1], vds)
        t2 == TypeOf(node.Children[2], vds)
        t3 == TypeOf(node.Children[3], vds)
        named == {i \in 1..Len(vds) : vds[i].Name = node.Name}
        holding == {i \in 1..Len(vds) :
                       vds[i].Type = TypeEnum /\ node.Name \in Range(vds[i].Values)}
        OfVar(i) == IF vds[i].Type = TypeBool THEN <<"bool">>
                    ELSE IF vds[i].Type = TypeInt THEN <<"int">>
                    ELSE <<"enum", i>>
    IN
    CASE node.Type = "NodeLitInt" -> <<"int">>
      [] node.Type = "NodeLitBool" -> <<"bool">>
      [] node.Type = "NodeVar" ->
            IF named # {} THEN OfVar(CHOOSE i \in named : TRUE)
            ELSE IF holding # {} THEN <<"enum", CHOOSE i \in holding : TRUE>>
            ELSE <<"error">>
      [] node.Type = "NodeNot" ->
            IF t1 = <<"bool">> THEN <<"bool">> ELSE <<"error">>
      [] node.Type \in {"NodeAnd", "NodeOr"} ->
            IF t1 = <<"bool">> /\ t2 = <<"bool">> THEN <<"bool">> ELSE <<"error">>
      [] node.Type \in {"NodeEq", "NodeNeq"} ->
            IF t1 # <<"error">> /\ t1 = t2 THEN <<"bool">> ELSE <<"error">>
      [] node.Type \in {"NodeLt", "NodeLe", "NodeGt", "NodeGe"} ->
            IF t1 = <<"int">> /\ t2 = <<"int">> THEN <<"bool">> ELSE <<"error">>
      [] node.Type \in {"NodeAdd", "NodeSub", "NodeMul", "NodeDiv", "NodeMod"} ->
            IF t1 = <<"int">> /\ t2 = <<"int">> THEN <<"int">> ELSE <<"error">>
      [] node.Type = "NodeIf" ->
            IF t1 = <<"bool">> /\ t2 # <<"error">> /\ t2 = t3 THEN t2 ELSE <<"error">>
      [] node.Type = "NodeCall" ->
            IF \A k \in 1..Len(node.Children) : TypeOf(node.Children[k], vds) = <<"int">>
            THEN <<"int">> ELSE <<"error">>
      [] OTHER -> <<"error">>

\* the texts of all invariant, repair, guard and effect expressions of the
\* loaded registry
ExprTexts ==
    {reg.Invariants[i].Expr : i \in 1..Len(reg.Invariants)}
    \cup UNION {Range(reg.Compensation[i].Assignments) : i \in 1..Len(reg.Compensation)}
    \cup ({reg.Events[i].Guard : i \in 1..Len(reg.Events)} \ {<<>>})
    \cup UNION {Range(reg.Events[i].Assignments) : i \in 1..Len(reg.Events)}

\* the expressions of the loaded registry that parse and hold an unknown
\* identifier or an operator applied to operands of the wrong type
IllTyped ==
    {t \in ExprTexts : Parse(t).ok /\ TypeOf(Parse(t).node, reg.Vars) = <<"error">>}

\* C17: once Compile has run on a loaded registry one of whose invariant,
\* repair, guard or effect expressions references an unknown identifier or
\* applies an operator to operands of the wrong type, it has returned an
\* error: the run has ended with a compile error and no compiled registry.
C17_IllTypedAbortsCompile ==
    (reg # <<>> /\ pc # "loaded" /\ IllTyped # {}) =>
        (cr = <<>> /\ pc = "exit" /\ stderr[1] = "COMPILE ERROR")


\* the ill-typed expressions of the loaded registry all of whose identifiers
\* are variables, enum literals or built-in functions
TypeMisuse ==
    {t \in IllTyped :
        IdentTokens(t) \subseteq
            Identifiers(reg.Vars) \cup {<<"m","i","n">>, <<"m","a","x">>, <<"c","l","a","m","p">>}}

\* the assignments <<target variable, right-hand side>> of the loaded registry
\* whose target is an enum variable and whose right-hand side has another type
EnumMisassigned ==
    LET Blocks18 == {reg.Compensation[i].Assignments : i \in 1..Len(reg.Compensation)}
                      \cup {reg.Events[i].Assignments : i \in 1..Len(reg.Events)}
        Pairs(b) == {<<i, b[reg.Vars[i].Name]>> :
                        i \in {j \in 1..Len(reg.Vars) : reg.Vars[j].Name \in DOMAIN b}}
    IN  {a \in UNION {Pairs(b) : b \in Blocks18} :
            /\ reg.Vars[a[1]].Type = TypeEnum
            /\ Parse(a[2]).ok
            /\ a[2] \notin IllTyped
            /\ TypeOf(Parse(a[2]).node, reg.Vars) # <<"enum", a[1]>>}

\* the value of the expression text t at state sid of the compiled registry
ValueAt(t, sid) ==
    Eval(Parse(t).node, NewEnv(cr.Schema, Decode(cr.Schema, sid), cr.EnumLiterals))

\* C18: in a registry that Compile has accepted, an expression that applies
\* an operator to operands of the wrong type (an enum ordered or used in
\* arithmetic, == or != between an enum and an int or between two enums,
\* if-branches of different types) evaluates to an error at every state, and
\* the assignment of an int or of another enum's value to an enum variable is
\* refused at every state.
C18_TypesAreDisjoint ==
    (pc = "compiled") =>
        /\ \A t \in TypeMisuse : \A sid \in StateIDs(cr) : ValueAt(t, sid).err # <<>>
        /\ \A a \in EnumMisassigned : \A sid \in StateIDs(cr) :
              \/ ValueAt(a[2], sid).err # <<>>
              \/ AssignValue(cr, cr.Schema.Vars[a[1]], ValueAt(a[2], sid),
                             Decode(cr.Schema, sid)).err # <<>>


\* the positions of the compensation list whose entry is declared for
\* invariant i
DeclaredFor(i) ==
    {k \in 1..Len(cr.Reg.Compensation) :
        cr.Reg.Compensation[k].Invariant = cr.Reg.Invariants[i].Name}

\* the invalid states, with the first invariant violated at each
FirstViolated ==
    [s \in {t \in StateIDs(cr) : ~Valid[t]} |-> Least(ViolatedAt(s))]

\* building NF has failed for want of a repair of invariant i
NoRepairFor(i) ==
    /\ pc = "exit"
    /\ Len(stderr) = 5
    /\ stderr[1] = "TABLE BUILD ERROR"
    /\ stderr[2] = "normal form at state"
    /\ stderr[4] = "no repair defined for invariant"
    /\ stderr[5] = cr.Reg.Invariants[i].Name

\* the state st with every target of the block blk set to the value of its
\* right-hand side at st
RepairedAt(blk, st) ==
    [k \in 1..Len(st) |->
        IF k \in DOMAIN blk THEN Stored(Eval(blk[k], makeEnv(cr, st))) ELSE st[k]]

\* C19 as stated: every repair applied during normalisation is the one declared
\* for the invariant it was applied for, and normalisation succeeds only if
\* every first violated invariant has a repair declared for it.
C19_RepairsBoundByName ==
    /\ \A r \in repairLog : r.ri \in DeclaredFor(r.ri)
    /\ NFBuilt => \A s \in DOMAIN FirstViolated : DeclaredFor(FirstViolated[s]) # {}

\* C19, amended: repairs are bound to invariants by position. Every repair
\* applied during normalisation for invariant i is the entry at position i of
\* the compensation list, whichever invariant that entry is declared for;
\* normalisation succeeds only if every first violated invariant has an entry
\* at its position, and it fails with 'no repair defined' for invariant i only
\* if i is the first violated invariant at some state and the list is shorter
\* than i.
C19_RepairsBoundByPosition ==
    /\ \A r \in repairLog :
          /\ r.ri <= Len(cr.Reg.Compensation)
          /\ Decode(cr.Schema, r.to) =
                RepairedAt(cr.RepExprs[r.ri], Decode(cr.Schema, r.at))
    /\ NFBuilt =>
          \A s \in DOMAIN FirstViolated : FirstViolated[s] <= Len(cr.Reg.Compensation)
    /\ (cr # <<>> /\ Valid # <<>>) =>
          \A i \in 1..Len(cr.Reg.Invariants) :
              NoRepairFor(i) =>
                  /\ i > Len(cr.Reg.Compensation)
                  /\ \E s \in DOMAIN FirstViolated : FirstViolated[s] = i

\* normalisation has applied the first entry of the list, declared for
\* another invariant, for the first invariant, and then failed at a state
\* where the second invariant is the first violated one and the list has no
\* second entry although an entry is declared for that invariant
C19_Witness ==
    /\ cr # <<>> /\ Valid # <<>>
    /\ Len(cr.Reg.Invariants) = 2
    /\ NoRepairFor(2)
    /\ DeclaredFor(2) = {1}
    /\ \E r \in repairLog : r.ri = 1 /\ DeclaredFor(1) = {}


\* the run is that of the permissions registry: can_read and can_write, the
\* invariant that writing needs reading with the repair can_write := false,
\* and the events grant_read, revoke_read, grant_write, revoke_write
Permissions ==
    /\ reg # <<>>
    /\ reg.Name = <<"p","e","r","m","i","s","s","i","o","n","s">>
    /\ [i \in 1..Len(reg.Vars) |-> reg.Vars[i].Name] = <<<<"c","a","n","_","r","e","a","d">>, <<"c","a","n","_","w","r","i","t","e">>>>
    /\ [i \in 1..Len(reg.Events) |-> reg.Events[i].Name] =
          <<<<"g","r","a","n","t","_","r","e","a","d">>, <<"r","e","v","o","k","e","_","r","e","a","d">>, <<"g","r","a","n","t","_","w","r","i","t","e">>, <<"r","e","v","o","k","e","_","w","r","i","t","e">>>>

Fulfilling ==
    /\ reg # <<>>
    /\ [i \in 1..Len(reg.Vars) |-> reg.Vars[i].Name] = <<<<"o","r","d","e","r">>, <<"p","a","y","m","e","n","t">>>>
    /\ [i \in 1..Len(reg.Events) |-> reg.Events[i].Name] = <<<<"s","h","i","p">>, <<"r","e","f","u","n","d">>>>

\* C21: on the order fulfilment registry CheckCC reports a failure of CC1 or
\* of CC2, and the verdict is that convergence is not guaranteed.
C21_FulfilmentFails ==
    (Fulfilling /\ CCDone) =>
        /\ ~cc.CC1Pass \/ ~cc.CC2Pass
        /\ verdict # "none" => verdict = "NOT GUARANTEED"


\* the run is that of the two flags a and b with no invariant and the events
\* set_a, clear_a, set_b, clear_b
TwoFlags ==
    /\ reg # <<>>
    /\ [i \in 1..Len(reg.Vars) |-> reg.Vars[i].Name] = <<<<"a">>, <<"b">>>>
    /\ reg.Invariants = <<>>
    /\ [i \in 1..Len(reg.Events) |-> reg.Events[i].Name] =
          <<<<"s","e","t","_","a">>, <<"c","l","e","a","r","_","a">>, <<"s","e","t","_","b">>, <<"c","l","e","a","r","_","b">>>>

\* C22: once CheckCC has run: on the two flags WFC, CC1 and CC2 pass with 4
\* pairs checked and 2 skipped; whenever CC1 passes, the pairs checked and the
\* pairs skipped together are the |E|*(|E|-1)/2 unordered pairs of distinct
\* events; with no events CC1 and CC2 pass and both counts are 0.
C22_PairCounts ==
    CCDone =>
        /\ TwoFlags =>
              /\ wfc.pass /\ cc.CC1Pass /\ cc.CC2Pass
              /\ cc.PairsChecked = 4
              /\ cc.DependentSkipped = 2
        /\ cc.CC1Pass =>
              2 * (cc.PairsChecked + cc.DependentSkipped) =
                  Len(reg.Events) * (Len(reg.Events) - 1)
        /\ reg.Events = <<>> =>
              /\ cc.CC1Pass /\ cc.CC2Pass
              /\ cc.PairsChecked = 0 /\ cc.DependentSkipped = 0

\* the run on the two flags has ended with convergence guaranteed
C22_Witness ==
    /\ TwoFlags
    /\ pc = "exit"
    /\ verdict = "GUARANTEED"
    /\ exitCode = 0


\* the run tabulates the built-in function fn: the registry named fn over l,
\* x, h and r, whose Valid table is built
Tabulated(fn) ==
    /\ reg # <<>> /\ cr # <<>>
    /\ reg.Name = fn
    /\ [i \in 1..Len(reg.Vars) |-> reg.Vars[i].Name] = <<<<"l">>, <<"x">>, <<"h">>, <<"r">>>>
    /\ Valid # <<>>

Smaller(a, b) == IF a < b THEN a ELSE b

Larger(a, b) == IF a > b THEN a ELSE b

\* the states <<l, x, h, r>> at which the tabulated call has the value r
Graph == {Decode(cr.Schema, sid) : sid \in {t \in StateIDs(cr) : Valid[t]}}

\* the states <<l, x, h, r>> of the tabulating registries
Points == {Decode(cr.Schema, sid) : sid \in StateIDs(cr)}

\* C23: for all integers lo, x and hi, also with lo > hi, clamp(lo, x, hi)
\* evaluates to max(lo, min(x, hi)), min(a, b) to the smaller and max(a, b) to
\* the larger of its arguments.
C23_BuiltinFunctions ==
    /\ Tabulated(<<"c","l","a","m","p">>) =>
          Graph = {p \in Points : p[4] = Larger(p[1], Smaller(p[2], p[3]))}
    /\ Tabulated(<<"m","i","n">>) => Graph = {p \in Points : p[4] = Smaller(p[1], p[2])}
    /\ Tabulated(<<"m","a","x">>) => Graph = {p \in Points : p[4] = Larger(p[1], p[2])}


RECURSIVE HasOpenDivisor(_)
\* the expression holds a '/' or '%' whose divisor is not a nonzero integer
\* literal
HasOpenDivisor(node) ==
    \/ /\ node.Type \in {"NodeDiv", "NodeMod"}
       /\ ~(node.Children[2].Type = "NodeLitInt" /\ node.Children[2].IntVal # 0)
    \/ \E k \in 1..Len(node.Children) : HasOpenDivisor(node.Children[k])

\* the expressions of the loaded registry with such a divisor
OpenDivisions == {t \in ExprTexts : Parse(t).ok /\ HasOpenDivisor(Parse(t).node)}

\* the run has ended in a table build error whose cause is a division or a
\* modulus by zero
ZeroDivisorError ==
    /\ Len(stderr) \in {4, 5}
    /\ stderr[1] = "TABLE BUILD ERROR"
    /\ \/ Len(stderr) = 4 /\ stderr[2] \in {"validity check at state", "normal form at state"}
       \/ Len(stderr) = 5 /\ stderr[2] \in {"event at state", "event guard at state"}
    /\ stderr[Len(stderr)] \in {"division by zero", "modulo by zero"}

\* C24: once Compile has run on a loaded registry one of whose expressions
\* divides or takes a modulus by anything but a nonzero integer literal, the
\* run has ended with a compile error and no compiled registry; and no run
\* ends with a division-by-zero or modulo-by-zero error.
C24_DivisionByZeroExcluded ==
    /\ (reg # <<>> /\ pc # "loaded" /\ OpenDivisions # {}) =>
          (cr = <<>> /\ pc = "exit" /\ stderr[1] = "COMPILE ERROR")
    /\ ~ZeroDivisorError


\* a step taken after the build phase leaves the compiled registry and the
\* three tables as they are
TablesKept ==
    (pc \in {"built", "wfc", "cc"}) =>
        (cr' = cr /\ Valid' = Valid /\ NF' = NF /\ Step' = Step)

\* C25: from the end of the build phase on, no step of the run (CheckWFC with
\* repairDepth, CheckCC, the report with Stats and the state formatting)
\* changes a cell of Valid, NF or Step, the schema or a parsed expression,
\* whatever the outcome of the checks.
C25_TablesImmutable == [][TablesKept]_vars

\* both checks have run on tables with invalid states and events, CC has
\* failed, and the tables are those the build phase computes
C25_Witness ==
    /\ pc = "exit"
    /\ verdict = "NOT GUARANTEED"
    /\ wfc.pass /\ wfc.maxDepth > 0
    /\ ~cc.CCPass
    /\ Valid = BuildValidTable(cr).tab
    /\ NF = BuildNFTable(cr, Valid, order).tab
    /\ Step # <<>>
    /\ Step = BuildStepTable(cr, NF, order).tab


\* the visiting orders of the assignment blocks of the spec file of this run
RunOrders == Orders(raw)

\* C26: a run's outcome does not depend on the order in which the assignments
\* of a block are visited: under every visiting order Compile returns the
\* same compiled registry or the same error as in this run, and the NF table,
\* the Step table and the WFC result are built with the same cells or end in
\* the same error.
C26_OrderIndependent ==
    /\ (pc = "loaded") =>
          \A o \in RunOrders : Compile(reg, o) = Compile(reg, order)
    /\ (pc = "valid") =>
          \A o \in RunOrders :
              /\ BuildNFTable(cr, Valid, o).err = BuildNFTable(cr, Valid, order).err
              /\ BuildNFTable(cr, Valid, o).tab = BuildNFTable(cr, Valid, order).tab
    /\ (pc = "nf") =>
          \A o \in RunOrders : BuildStepTable(cr, NF, o) = BuildStepTable(cr, NF, order)
    /\ (pc = "built") =>
          \A o \in RunOrders : CheckWFC(cr, Valid, NF, o) = CheckWFC(cr, Valid, NF, order)


RECURSIVE ChainLength(_)
\* the number of repairs computeNF applied on the way from state s to its
\* normal form
ChainLength(s) ==
    IF Valid[s] THEN 0
    ELSE 1 + ChainLength((CHOOSE r \in repairLog : r.at = s).to)

\* CheckWFC has run
WFCDone == pc \in {"wfc", "cc"} \/ (pc = "exit" /\ verdict # "none")

\* C27: when WFC passes, the reported maximal depth is the largest number of
\* repairs on the chain from a state to its normal form, over all states; it
\* is 0 exactly when every state is valid.
C27_MaxDepthIsLongestChain ==
    (WFCDone /\ wfc.pass) =>
        /\ \A s \in StateIDs(cr) : ChainLength(s) <= wfc.maxDepth
        /\ \E s \in StateIDs(cr) : ChainLength(s) = wfc.maxDepth
        /\ (wfc.maxDepth = 0) <=> (\A s \in StateIDs(cr) : Valid[s])

\* WFC has passed with a chain of two repairs as the longest, on a registry
\* that also has states one repair away from their normal form
C27_Witness ==
    /\ WFCDone /\ wfc.pass
    /\ wfc.maxDepth = 2
    /\ \E s \in StateIDs(cr) : ChainLength(s) = 1


\* the two orders of the events e1 and e2 are both defined at state s and end
\* in different states
OrdersDiffer(e1, e2, s) ==
    /\ Step[e1][s] # -1 /\ Step[e2][s] # -1
    /\ Step[e2][Step[e1][s]] # -1 /\ Step[e1][Step[e2][s]] # -1
    /\ Step[e2][Step[e1][s]] # Step[e1][Step[e2][s]]

\* event e is defined at s and at the normal form of s and ends in different
\* states
NormalFormMatters(e, s) ==
    /\ Step[e][s] # -1 /\ Step[e][NF[s]] # -1
    /\ Step[e][s] # Step[e][NF[s]]

\* the counterexamples of CC1, as <<e1, e2, s>>, and of CC2, as <<e, s>>
CC1Counterexamples ==
    {t \in (1..Len(cr.Reg.Events)) \X (1..Len(cr.Reg.Events)) \X StateIDs(cr) :
        t[1] < t[2] /\ isIndependent(cr, t[1], t[2]) /\ OrdersDiffer(t[1], t[2], t[3])}

CC2Counterexamples ==
    {t \in (1..Len(cr.Reg.Events)) \X StateIDs(cr) : NormalFormMatters(t[1], t[2])}

\* t comes before u in the order of the loops: first component outermost
LoopBefore(t, u) ==
    \E k \in 1..Len(t) : t[k] < u[k] /\ \A j \in 1..(k - 1) : t[j] = u[j]

\* the pairs e1 < e2 the CC1 loops reach up to and including <<e1, e2>>
PairsUpTo(e1, e2) ==
    {p \in (1..Len(cr.Reg.Events)) \X (1..Len(cr.Reg.Events)) :
        p[1] < p[2] /\ (p = <<e1, e2>> \/ LoopBefore(p, <<e1, e2>>))}

StateText(s) == fmtState(cr, Decode(cr.Schema, s))

\* C28: a failing CC1 reports the first counterexample <<e1, e2, s>> in the
\* order of its loops (pairs e1 < e2 of independent events in declaration
\* order, state IDs ascending) and counts no pair after <<e1, e2>>; a failing
\* CC2 reports the first counterexample <<e, s>> with the events in the outer
\* and the state IDs in the inner loop; CC2 is decided on all events and
\* states whether or not CC1 failed.
C28_FirstCounterexample ==
    CCDone =>
        /\ cc.CC1Pass <=> (CC1Counterexamples = {})
        /\ ~cc.CC1Pass =>
              \E t \in CC1Counterexamples :
                  /\ \A u \in CC1Counterexamples : u = t \/ LoopBefore(t, u)
                  /\ cc.CC1FailEvent1 = cr.Reg.Events[t[1]].Name
                  /\ cc.CC1FailEvent2 = cr.Reg.Events[t[2]].Name
                  /\ cc.CC1FailState = StateText(t[3])
                  /\ cc.CC1FailNF1 = StateText(Step[t[2]][Step[t[1]][t[3]]])
                  /\ cc.CC1FailNF2 = StateText(Step[t[1]][Step[t[2]][t[3]]])
                  /\ cc.PairsChecked + cc.DependentSkipped =
                        Cardinality(PairsUpTo(t[1], t[2]))
        /\ cc.CC2Pass <=> (CC2Counterexamples = {})
        /\ ~cc.CC2Pass =>
              \E t \in CC2Counterexamples :
                  /\ \A u \in CC2Counterexamples : u = t \/ LoopBefore(t, u)
                  /\ cc.CC2FailEvent = cr.Reg.Events[t[1]].Name
                  /\ cc.CC2FailState = StateText(t[2])
                  /\ cc.CC2FailNFState = StateText(NF[t[2]])
                  /\ cc.CC2FailNF1 = StateText(Step[t[1]][t[2]])
                  /\ cc.CC2FailNF2 = StateText(Step[t[1]][NF[t[2]]])


\* CC1 has failed at a pair that is neither the first nor the last of the
\* loop, after a dependent pair was skipped, with counterexamples at two states of that pair and at a later
\* pair; CC2 has been decided after that and has failed, with counterexamples
\* for two events of which the later one has one at a lower state
C28_Witness ==
    /\ CCDone
    /\ ~cc.CC1Pass
    /\ cc.PairsChecked > 0 /\ cc.DependentSkipped > 0
    /\ 2 * (cc.PairsChecked + cc.DependentSkipped) <
          Len(reg.Events) * (Len(reg.Events) - 1)
    /\ \E t, u, v \in CC1Counterexamples :
          /\ cc.CC1FailEvent1 = cr.Reg.Events[t[1]].Name
          /\ cc.CC1FailEvent2 = cr.Reg.Events[t[2]].Name
          /\ cc.CC1FailState = StateText(t[3])
          /\ u[1] = t[1] /\ u[2] = t[2] /\ u[3] > t[3]
          /\ LoopBefore(<<t[1], t[2]>>, <<v[1], v[2]>>)
    /\ ~cc.CC2Pass
    /\ \E t, u \in CC2Counterexamples :
          /\ cc.CC2FailEvent = cr.Reg.Events[t[1]].Name
          /\ cc.CC2FailState = StateText(t[2])
          /\ u[1] > t[1] /\ u[2] < t[2]


RECURSIVE VarNodes(_)
\* the names of the NodeVar nodes of a parsed expression
VarNodes(node) ==
    IF node = NilNode THEN {}
    ELSE (IF node.Type = "NodeVar" THEN {node.Name} ELSE {})
            \cup UNION {VarNodes(node.Children[k]) : k \in 1..Len(node.Children)}

\* the schema variables that are variable nodes of the compiled guard or of a
\* compiled right-hand side of event e: the variables Eval looks up
ActualReads(e) ==
    {i \in 1..Len(cr.Schema.Vars) :
        cr.Schema.Vars[i].Name \in
            VarNodes(cr.EvtGuards[e])
                \cup UNION {VarNodes(cr.EvtExprs[e][k]) : k \in DOMAIN cr.EvtExprs[e]}}

\* C29: the read set CheckCC computes from the texts of an event contains
\* every schema variable that is a variable node of its parsed guard or of a
\* parsed right-hand side, so two events of which one writes a variable the
\* other one's expressions look up are never classified as independent.
C29_ReadSetCoversVarNodes ==
    CCDone =>
        /\ \A e \in 1..Len(cr.Reg.Events) :
              {VarIndex(cr.Schema, cr.Schema.Vars[i].Name) : i \in ActualReads(e)}
                  \subseteq EvtReads(cr, e)
        /\ \A e1, e2 \in 1..Len(cr.Reg.Events) :
              (\E i \in ActualReads(e2) :
                    VarIndex(cr.Schema, cr.Schema.Vars[i].Name) \in EvtWrites(cr, e1))
                  => /\ ~isIndependent(cr, e1, e2)
                     /\ ~isIndependent(cr, e2, e1)

\* CheckCC has skipped a pair that is dependent only because one event writes
\* a variable the other looks up, where the text that is read also holds the
\* variable's name as the start of a longer identifier
C29_Witness ==
    /\ CCDone
    /\ cc.DependentSkipped = 1
    /\ Len(cr.Reg.Events) = 2
    /\ EvtWrites(cr, 1) \cap EvtWrites(cr, 2) = {}
    /\ EvtWrites(cr, 1) \cap EvtReads(cr, 2) = {}
    /\ \E i \in ActualReads(1) :
          /\ VarIndex(cr.Schema, cr.Schema.Vars[i].Name) \in EvtWrites(cr, 2)
          /\ \E k \in DOMAIN cr.Reg.Events[1].Assignments :
                ~containsIdentFirstMatch(cr.Reg.Events[1].Assignments[k],
                                         cr.Schema.Vars[i].Name)


\* the invalid states whose first violated invariant has no repair at its
\* position of the compensation list
Unrepairable ==
    {s \in StateIDs(cr) :
        ViolatedAt(s) # {} /\ Least(ViolatedAt(s)) > Len(cr.RepExprs)}

\* C30: once BuildTables has succeeded, every NF entry is the ID of a valid
\* state and every valid state is its own NF, so CheckWFC passes without an
\* error, without a counterexample and with a depth below MaxRepairIter; a
\* registry with a state whose repairs never end or whose violated invariant
\* has no repair ends in a TABLE BUILD ERROR before CheckWFC is called.
C30_WFCPassesAfterBuild ==
    /\ TablesBuilt =>
          \A s \in StateIDs(cr) :
              /\ NF[s] \in StateIDs(cr)
              /\ Valid[NF[s]]
              /\ Valid[s] => NF[s] = s
    /\ wfc.err = <<>> /\ wfc.badState = NoBadState
    /\ WFCDone => wfc.pass /\ wfc.maxDepth < MaxRepairIter
    /\ (pc = "exit" /\ cr # <<>> /\ Unnormalizable \cup Unrepairable # {}) =>
          /\ Len(stderr) > 0
          /\ stderr[1] = "TABLE BUILD ERROR"
          /\ verdict = "none"
          /\ wfc = WFCZero

\* CheckWFC has passed on tables in which some state is two repairs away
\* from its normal form
C30_Witness ==
    /\ WFCDone
    /\ wfc.pass
    /\ wfc.maxDepth = 2
    /\ \E s \in StateIDs(cr) : ~Valid[s] /\ NF[s] # s /\ Valid[NF[s]]

====
